---- MODULE Spec2Model ----
(***************************************************************************)
(* A model of the zkauction engine (lib/src): the order books rebuilt from *)
(* the submission and reveal streams under a rolling hash chain, the       *)
(* validation and sorting of the revealed orders, clearing-price discovery *)
(* and the assignment of bids and offers.                                  *)
(*                                                                         *)
(* Conventions.                                                            *)
(*  - Vec indices are the source's 0-based usize indices; At(v, i) reads   *)
(*    v[i].  A usize subtraction below zero and an out-of-range index both *)
(*    end the run (a panic in a debug build; in a release build the index  *)
(*    wraps and the very next slice access panics), modelled as an abort.  *)
(*  - The injected hash function is collision resistant: a digest is the   *)
(*    record of its preimage, the byte string being the tuple of the       *)
(*    packed fields.                                                       *)
(*  - U256 sums wrap (ruint's + and - are wrapping): a value v < 0 of the  *)
(*    model stands for 2^256 + v, and comparisons are unsigned.            *)
(***************************************************************************)
EXTENDS Integers, Sequences, FiniteSets, TLC

----------------------------------------------------------------------------
(* Program constants: lib/src/constants.rs *)

BPS == 10000

MAX_BID_PRICE == 1000000

MAX_OFFER_PRICE == 1000000

INITIAL_COLLATERAL_RATIO == 15000

DAYS_IN_YEAR == 360

----------------------------------------------------------------------------
(* Bounds of the model *)

\* Events folded into the books in the book-level specifications.
MaxEvents == 3

\* The highest revealed price of the auction specification.
MaxPrice == 3

----------------------------------------------------------------------------
(* Small input domains *)

Addresses == {1, 2}

OrderIds == {1}

PurchaseTokenAddress == "purchase_token"

CollateralTokenAddress == "collateral_token"

Nonces == {1, 2}

\* Prices at the edges of the accepted range: zero, the maximum and one
\* above it.
EdgePrices == {0, MAX_BID_PRICE, MAX_BID_PRICE + 1}

----------------------------------------------------------------------------
(* Hashing and encoding *)

\* The injected hash_function: injective on byte strings.
Hash(input) == [preimage |-> input]

\* B256::ZERO, the seed of both hash chains: no hash output equals it.
B256_ZERO == [preimage |-> <<>>]

At(v, i) == v[i + 1]

Front0(s) == SubSeq(s, 1, Len(s) - 1)

get_key(address, id) == <<address, id>>

get_price_hash(price, nonce) == Hash(<<price, nonce>>)

\* abi_encode_packed of the sol! structs: the fields in declaration order.
EncodeBidSubmission(s) ==
    <<s.bidder, s.id, s.bidPriceHash, s.amount, s.collateralAmount>>

EncodeOfferSubmission(s) ==
    <<s.offeror, s.id, s.offerPriceHash, s.amount, s.purchaseToken>>

EncodeReveal(r) == <<r.orderId, r.price, r.nonce>>

add_to_hash_chain_unchained(encoded_item, acc) == Hash(<<B256_ZERO>> \o encoded_item)

add_to_hash_chain(encoded_item, acc) == Hash(<<acc>> \o encoded_item)

----------------------------------------------------------------------------
(* Orders: lib/src/orders/bids.rs, lib/src/types/offers.rs *)

Bid_from_order_submission(s) ==
    [id |-> s.id,
     bidder |-> s.bidder,
     bid_price_hash |-> s.bidPriceHash,
     bid_price_revealed |-> 0,
     amount |-> s.amount,
     collateral_amount |-> s.collateralAmount,
     is_rollover |-> FALSE,
     rollover_pair_off_term_repo_servicer |-> 0,
     is_revealed |-> FALSE]

Bid_update_from_order_submission_reset(bid, s) ==
    [bid EXCEPT !.amount = s.amount,
                !.collateral_amount = s.collateralAmount,
                !.bid_price_hash = s.bidPriceHash,
                !.bid_price_revealed = 0,
                !.is_revealed = FALSE]

Bid_update_from_order_submission(bid, s) ==
    [bid EXCEPT !.amount = s.amount,
                !.collateral_amount = s.collateralAmount,
                !.bid_price_hash = s.bidPriceHash]

Bid_update_from_order_reveal_unchecked(bid, r) ==
    IF get_price_hash(r.price, r.nonce) = bid.bid_price_hash
    THEN [bid EXCEPT !.bid_price_revealed = r.price, !.is_revealed = TRUE]
    ELSE bid

Bid_update_from_order_reveal_ignored(bid, r) == bid

Bid_update_from_order_reveal_toggling(bid, r) ==
    IF /\ get_price_hash(r.price, r.nonce) = bid.bid_price_hash
       /\ r.price <= MAX_BID_PRICE
    THEN [bid EXCEPT !.bid_price_revealed = r.price, !.is_revealed = ~bid.is_revealed]
    ELSE bid

Bid_update_from_order_reveal(bid, r) ==
    IF /\ get_price_hash(r.price, r.nonce) = bid.bid_price_hash
       /\ r.price <= MAX_BID_PRICE
    THEN [bid EXCEPT !.bid_price_revealed = r.price, !.is_revealed = TRUE]
    ELSE bid

Offer_from_order_submission(s) ==
    [id |-> s.id,
     offeror |-> s.offeror,
     offer_price_hash |-> s.offerPriceHash,
     offer_price_revealed |-> 0,
     amount |-> s.amount,
     purchase_token |-> s.purchaseToken,
     is_revealed |-> FALSE]

Offer_update_from_order_submission(offer, s) ==
    [offer EXCEPT !.amount = s.amount,
                  !.offer_price_hash = s.offerPriceHash]

Offer_update_from_order_reveal(offer, r) ==
    IF /\ get_price_hash(r.price, r.nonce) = offer.offer_price_hash
       /\ r.price <= MAX_OFFER_PRICE
    THEN [offer EXCEPT !.offer_price_revealed = r.price, !.is_revealed = TRUE]
    ELSE offer

----------------------------------------------------------------------------
(* Books: BTreeMap<B256, Order>, a function on the set of its keys *)

MapRemove(book, key) == [k \in DOMAIN book \ {key} |-> book[k]]

MapPut(book, key, value) ==
    [k \in DOMAIN book \cup {key} |-> IF k = key THEN value ELSE book[k]]

Bids_save_or_update_order_keep(book, s) ==
    LET key == get_key(s.bidder, s.id) IN
    IF key \in DOMAIN book
    THEN MapPut(book, key, Bid_update_from_order_submission(book[key], s))
    ELSE MapPut(book, key, Bid_from_order_submission(s))

Bids_save_or_update_order(book, s) ==
    LET key == get_key(s.bidder, s.id) IN
    IF s.collateralAmount = 0
    THEN MapRemove(book, key)
    ELSE IF key \in DOMAIN book
         THEN MapPut(book, key, Bid_update_from_order_submission(book[key], s))
         ELSE MapPut(book, key, Bid_from_order_submission(s))

Offers_save_or_update_order(book, s) ==
    LET key == get_key(s.offeror, s.id) IN
    IF s.amount = 0
    THEN MapRemove(book, key)
    ELSE IF key \in DOMAIN book
         THEN MapPut(book, key, Offer_update_from_order_submission(book[key], s))
         ELSE MapPut(book, key, Offer_from_order_submission(s))

BidReveals_hash_chain_step_forced(acc, book, r) ==
    [acc |-> add_to_hash_chain(EncodeReveal(r), acc),
     book |-> IF r.orderId \in DOMAIN book
              THEN MapPut(book, r.orderId,
                          [book[r.orderId] EXCEPT !.bid_price_revealed = r.price,
                                                  !.is_revealed = TRUE])
              ELSE book]

\* The closure of BidReveals::hash_chain: the fold state is <<acc, book>>.
BidReveals_hash_chain_step(acc, book, r) ==
    [acc |-> add_to_hash_chain(EncodeReveal(r), acc),
     book |-> IF r.orderId \in DOMAIN book
              THEN MapPut(book, r.orderId,
                          Bid_update_from_order_reveal(book[r.orderId], r))
              ELSE book]

BidSubmissions_hash_chain_step(acc, book, s) ==
    [acc |-> add_to_hash_chain(EncodeBidSubmission(s), acc),
     book |-> Bids_save_or_update_order(book, s)]

OfferReveals_hash_chain_step(acc, book, r) ==
    [acc |-> add_to_hash_chain(EncodeReveal(r), acc),
     book |-> IF r.orderId \in DOMAIN book
              THEN MapPut(book, r.orderId,
                          Offer_update_from_order_reveal(book[r.orderId], r))
              ELSE book]

OfferSubmissions_hash_chain_step(acc, book, s) ==
    [acc |-> add_to_hash_chain(EncodeOfferSubmission(s), acc),
     book |-> Offers_save_or_update_order(book, s)]

----------------------------------------------------------------------------
(* State *)

VARIABLES
    \* run_auction's inputs (in the book-level specifications: the events
    \* folded so far, per stream)
    bid_submissions, bid_reveals, offer_submissions, offer_reveals,
    auction_parameters,
    \* lib.rs:64-73
    bids, offers, acc_bids_hash, acc_offers_hash,
    \* position in run_auction, and the panic that ended it, if any
    pc, panic,
    \* lib.rs:79-90
    bidder_allocations, offeror_allocations, validated_bids, validated_offers,
    \* locals of compute_clearing_price
    offer_index, bid_index, cum_sum_offers, cum_sum_bids, max_clearing_volume,
    next_offer_price, clearing_price, max_assignable,
    \* locals of ValidatedBids::assign and ValidatedOffers::assign, and the
    \* price groups each has processed so far
    j, total_assigned_bids, bid_groups, i, total_assigned_offers, offer_groups,
    \* lib.rs:76, 120-126: the digest of the auction parameters, the exit
    \* leaves and their root
    tokens_hash, exit_leaves, auction_result_root,
    \* the arguments and the return value of a function called on its own
    call_args, call_result

input_vars == <<bid_submissions, bid_reveals, offer_submissions, offer_reveals,
                auction_parameters>>

book_vars == <<bids, offers, acc_bids_hash, acc_offers_hash>>

result_vars == <<bidder_allocations, offeror_allocations, validated_bids,
                 validated_offers>>

clearing_vars == <<offer_index, bid_index, cum_sum_offers, cum_sum_bids,
                   max_clearing_volume, next_offer_price, clearing_price,
                   max_assignable>>

assign_bids_vars == <<j, total_assigned_bids, bid_groups>>

assign_offers_vars == <<i, total_assigned_offers, offer_groups>>

exit_vars == <<tokens_hash, exit_leaves, auction_result_root>>

call_vars == <<call_args, call_result>>

vars == <<input_vars, book_vars, pc, panic, result_vars, clearing_vars,
          assign_bids_vars, assign_offers_vars, exit_vars, call_vars>>

\* The scenario parameters of the specification: both prices 1, 360 days.
ScenarioParameters ==
    [purchaseToken |-> PurchaseTokenAddress, purchasePrice |-> 1,
     collateralToken |-> CollateralTokenAddress, collateralPrice |-> 1,
     dayCount |-> DAYS_IN_YEAR]

\* Bids::new(), Offers::new(): the empty map.
EmptyMap == [k \in {} |-> 0]

\* Everything run_auction has not touched yet.
InitLocals ==
    /\ panic = ""
    /\ bidder_allocations = EmptyMap
    /\ offeror_allocations = EmptyMap
    /\ validated_bids = <<>>
    /\ validated_offers = <<>>
    /\ offer_index = 0
    /\ bid_index = 0
    /\ cum_sum_offers = 0
    /\ cum_sum_bids = 0
    /\ max_clearing_volume = 0
    /\ next_offer_price = 0
    /\ clearing_price = 0
    /\ max_assignable = 0
    /\ j = 0
    /\ total_assigned_bids = 0
    /\ bid_groups = <<>>
    /\ i = 0
    /\ total_assigned_offers = 0
    /\ offer_groups = <<>>
    /\ tokens_hash = B256_ZERO
    /\ exit_leaves = <<>>
    /\ auction_result_root = B256_ZERO

\* No function has been called on its own.
NoCall ==
    /\ call_args = "none"
    /\ call_result = "none"

\* No run of the auction is under way: what a function called on its own
\* leaves alone.
NoAuction ==
    /\ bid_submissions = <<>>
    /\ bid_reveals = <<>>
    /\ offer_submissions = <<>>
    /\ offer_reveals = <<>>
    /\ auction_parameters = ScenarioParameters
    /\ bids = EmptyMap
    /\ offers = EmptyMap
    /\ acc_bids_hash = B256_ZERO
    /\ acc_offers_hash = B256_ZERO
    /\ InitLocals

auction_vars == <<input_vars, book_vars, panic, result_vars, clearing_vars, assign_bids_vars, assign_offers_vars, exit_vars>>

----------------------------------------------------------------------------
(* The book layer, one event at a time                                     *)

BookKeys == {get_key(a, id) : a \in Addresses, id \in OrderIds}

PriceCommitments == {get_price_hash(p, 1) : p \in EdgePrices}

BidSubmissionSet ==
    [bidder : Addresses, id : OrderIds, bidPriceHash : PriceCommitments,
     amount : {1, 2}, collateralAmount : {0, 3}]

OfferSubmissionSet ==
    [offeror : Addresses, id : OrderIds, offerPriceHash : PriceCommitments,
     amount : {0, 1, 2}, purchaseToken : {PurchaseTokenAddress}]

RevealSet == [orderId : BookKeys, price : EdgePrices, nonce : Nonces]

EventCount ==
    Len(bid_submissions) + Len(bid_reveals)
        + Len(offer_submissions) + Len(offer_reveals)

BooksInit ==
    /\ bid_submissions = <<>>
    /\ bid_reveals = <<>>
    /\ offer_submissions = <<>>
    /\ offer_reveals = <<>>
    /\ auction_parameters = ScenarioParameters
    /\ bids = EmptyMap
    /\ offers = EmptyMap
    /\ acc_bids_hash = B256_ZERO
    /\ acc_offers_hash = B256_ZERO
    /\ pc = "hash_chain"
    /\ InitLocals
    /\ NoCall

\* One iteration of BidSubmissions::hash_chain (bids.rs:175-184).  In
\* run_auction's order the submissions of a stream precede its reveals.
BidSubmit(in_order) ==
    /\ pc = "hash_chain"
    /\ UNCHANGED <<call_vars, exit_vars>>
    /\ EventCount < MaxEvents
    /\ offer_submissions = <<>> /\ offer_reveals = <<>>
    /\ in_order => bid_reveals = <<>>
    /\ \E s \in BidSubmissionSet :
         LET st == BidSubmissions_hash_chain_step(acc_bids_hash, bids, s) IN
         /\ bid_submissions' = Append(bid_submissions, s)
         /\ acc_bids_hash' = st.acc
         /\ bids' = st.book
    /\ UNCHANGED <<bid_reveals, offer_submissions, offer_reveals,
                   auction_parameters, offers, acc_offers_hash, pc, panic,
                   result_vars, clearing_vars, assign_bids_vars,
                   assign_offers_vars>>

\* One iteration of BidReveals::hash_chain (bids.rs:212-224).
BidReveal ==
    /\ pc = "hash_chain"
    /\ UNCHANGED <<call_vars, exit_vars>>
    /\ EventCount < MaxEvents
    /\ offer_submissions = <<>> /\ offer_reveals = <<>>
    /\ \E r \in RevealSet :
         LET st == BidReveals_hash_chain_step(acc_bids_hash, bids, r) IN
         /\ bid_reveals' = Append(bid_reveals, r)
         /\ acc_bids_hash' = st.acc
         /\ bids' = st.book
    /\ UNCHANGED <<bid_submissions, offer_submissions, offer_reveals,
                   auction_parameters, offers, acc_offers_hash, pc, panic,
                   result_vars, clearing_vars, assign_bids_vars,
                   assign_offers_vars>>

\* One iteration of OfferSubmissions::hash_chain (offers.rs:138-149).
OfferSubmit(in_order) ==
    /\ pc = "hash_chain"
    /\ UNCHANGED <<call_vars, exit_vars>>
    /\ EventCount < MaxEvents
    /\ in_order => offer_reveals = <<>>
    /\ \E s \in OfferSubmissionSet :
         LET st == OfferSubmissions_hash_chain_step(acc_offers_hash, offers, s) IN
         /\ offer_submissions' = Append(offer_submissions, s)
         /\ acc_offers_hash' = st.acc
         /\ offers' = st.book
    /\ UNCHANGED <<bid_submissions, bid_reveals, offer_reveals,
                   auction_parameters, bids, acc_bids_hash, pc, panic,
                   result_vars, clearing_vars, assign_bids_vars,
                   assign_offers_vars>>

\* One iteration of OfferReveals::hash_chain (offers.rs:177-190).
OfferReveal ==
    /\ pc = "hash_chain"
    /\ UNCHANGED <<call_vars, exit_vars>>
    /\ EventCount < MaxEvents
    /\ \E r \in RevealSet :
         LET st == OfferReveals_hash_chain_step(acc_offers_hash, offers, r) IN
         /\ offer_reveals' = Append(offer_reveals, r)
         /\ acc_offers_hash' = st.acc
         /\ offers' = st.book
    /\ UNCHANGED <<bid_submissions, bid_reveals, offer_submissions,
                   auction_parameters, bids, acc_bids_hash, pc, panic,
                   result_vars, clearing_vars, assign_bids_vars,
                   assign_offers_vars>>

\* The folds in run_auction's order: each stream's submissions, then its
\* reveals (lib.rs:64-73).
NextBook == BidSubmit(TRUE) \/ BidReveal \/ OfferSubmit(TRUE) \/ OfferReveal

SpecBook == BooksInit /\ [][NextBook]_vars

\* The folds as the public ChainableSubmissions API allows them: a
\* submission stream may also be folded into a book that reveals have
\* already been applied to.
NextApi == BidSubmit(FALSE) \/ BidReveal \/ OfferSubmit(FALSE) \/ OfferReveal

SpecApi == BooksInit /\ [][NextApi]_vars

----------------------------------------------------------------------------
(* U256 arithmetic.  All amounts of the model are far below 2^255, so a    *)
(* wrapped difference is the only way to a large value: v < 0 stands for  *)
(* 2^256 + v.                                                              *)

U256_MAX == 0 - 1

U256_lt(a, b) == IF (a < 0) = (b < 0) THEN a < b ELSE b < 0

U256_le(a, b) == a = b \/ U256_lt(a, b)

U256_min(a, b) == IF U256_lt(b, a) THEN b ELSE a

wrapping_add(a, b) == a + b

wrapping_sub(a, b) == a - b

\* saturating_add: the sum, or U256::MAX when it does not fit.  Two small
\* values never reach 2^256, two values of at least 2^255 always do, and a
\* wrapped value 2^256 + a with a small b does when a + b >= 0.
saturating_add(a, b) ==
    IF a >= 0 /\ b >= 0 THEN a + b
    ELSE IF a < 0 /\ b < 0 THEN U256_MAX
    ELSE IF a + b >= 0 THEN U256_MAX
    ELSE a + b

\* The mutant of overflowing_mul that loses the overflow flag.
overflowing_mul_unflagged(a, b) == <<a * b, FALSE>>

\* overflowing_mul: <<product modulo 2^256, overflowed>>.  With v < 0
\* standing for 2^256 + v the integer product a * b stands for the wrapped
\* product, all values of the model being small next to 2^256.  The product
\* of two values of at least 2^255 overflows; that of one such value and a
\* small one overflows unless the small one is 0 or 1; two small values
\* never overflow.
overflowing_mul(a, b) ==
    <<a * b,
      IF a < 0 /\ b < 0 THEN TRUE
      ELSE IF a < 0 THEN b > 1
      ELSE IF b < 0 THEN a > 1
      ELSE FALSE>>

----------------------------------------------------------------------------
(* Allocations: lib/src/allocations *)

DefaultBidderAllocation ==
    [purchase_amount |-> 0,
     collateral_amount |-> 0,
     repurchase_obligation |-> [repurchase_amount |-> 0, collateral_amount |-> 0]]

DefaultOfferorAllocation == [repo_amount |-> 0, purchase_amount |-> 0]

\* entry(address).or_default()
BidderAllocations_get_allocation(allocations, address) ==
    IF address \in DOMAIN allocations
    THEN allocations[address]
    ELSE DefaultBidderAllocation

OfferorAllocations_get_allocation(allocations, address) ==
    IF address \in DOMAIN allocations
    THEN allocations[address]
    ELSE DefaultOfferorAllocation

BidderAllocation_update_purchase_amount(allocation, amount) ==
    [allocation EXCEPT !.purchase_amount = saturating_add(@, amount)]

BidderAllocation_update_collateral_amount(allocation, amount) ==
    [allocation EXCEPT !.collateral_amount = saturating_add(@, amount)]

BidderAllocation_update_repurchase_obligation(allocation, repurchase_amount, collateral_amount) ==
    [allocation EXCEPT
        !.repurchase_obligation.repurchase_amount =
            saturating_add(@, repurchase_amount),
        !.repurchase_obligation.collateral_amount =
            saturating_add(@, collateral_amount)]

OfferorAllocation_update_repo_amount(allocation, amount) ==
    [allocation EXCEPT !.repo_amount = saturating_add(@, amount)]

OfferorAllocation_update_purchase_amount(allocation, amount) ==
    [allocation EXCEPT !.purchase_amount = saturating_add(@, amount)]

BidderAllocations_add_from_order_as_purchase(allocations, bid) ==
    MapPut(allocations, bid.bidder,
           BidderAllocation_update_purchase_amount(
               BidderAllocations_get_allocation(allocations, bid.bidder),
               bid.collateral_amount))

BidderAllocations_add_from_order(allocations, bid) ==
    MapPut(allocations, bid.bidder,
           BidderAllocation_update_collateral_amount(
               BidderAllocations_get_allocation(allocations, bid.bidder),
               bid.collateral_amount))

OfferorAllocations_add_from_order(allocations, offer) ==
    MapPut(allocations, offer.offeror,
           OfferorAllocation_update_purchase_amount(
               OfferorAllocations_get_allocation(allocations, offer.offeror),
               offer.amount))

----------------------------------------------------------------------------
(* Validation and sorting: lib/src/orders *)

Bid_is_valid(bid, tokens) ==
    LET m1 == overflowing_mul(bid.collateral_amount, tokens.collateralPrice)
        m2 == overflowing_mul(bid.amount, tokens.purchasePrice)
        m3 == overflowing_mul(m2[1], INITIAL_COLLATERAL_RATIO)
        m4 == overflowing_mul(m1[1], BPS)
    IN  /\ bid.is_revealed
        /\ U256_le(m3[1], m4[1])
        /\ ~m1[2] /\ ~m2[2] /\ ~m3[2] /\ ~m4[2]

\* The mutant of Offer::is_valid that accepts every offer.
Offer_is_valid_unrevealed(offer) == TRUE

Offer_is_valid(offer) == offer.is_revealed

\* Ord of B256 on address || id: the address first, then the id.
KeyLess(k1, k2) == k1[1] < k2[1] \/ (k1[1] = k2[1] /\ k1[2] < k2[2])

\* BTreeMap::into_iter: the keys in ascending order.
RECURSIVE KeysInOrder(_)
KeysInOrder(keys) ==
    IF keys = {}
    THEN <<>>
    ELSE LET least == CHOOSE k \in keys : \A other \in keys \ {k} : KeyLess(k, other)
         IN  <<least>> \o KeysInOrder(keys \ {least})

\* PlacedOrders::into_validated_orders for Bids: <<valid orders, allocations>>.
RECURSIVE Bids_into_validated_orders_from(_, _, _, _, _)
Bids_into_validated_orders_from(book, keys, tokens, valid_orders, allocations) ==
    IF keys = <<>>
    THEN [valid_orders |-> valid_orders, allocations |-> allocations]
    ELSE LET order == book[Head(keys)] IN
         IF Bid_is_valid(order, tokens)
         THEN Bids_into_validated_orders_from(
                  book, Tail(keys), tokens, Append(valid_orders, order), allocations)
         ELSE Bids_into_validated_orders_from(
                  book, Tail(keys), tokens, valid_orders,
                  BidderAllocations_add_from_order(allocations, order))

Bids_into_validated_orders(book, tokens, allocations) ==
    Bids_into_validated_orders_from(
        book, KeysInOrder(DOMAIN book), tokens, <<>>, allocations)

RECURSIVE Offers_into_validated_orders_from(_, _, _, _)
Offers_into_validated_orders_from(book, keys, valid_orders, allocations) ==
    IF keys = <<>>
    THEN [valid_orders |-> valid_orders, allocations |-> allocations]
    ELSE LET order == book[Head(keys)] IN
         IF Offer_is_valid(order)
         THEN Offers_into_validated_orders_from(
                  book, Tail(keys), Append(valid_orders, order), allocations)
         ELSE Offers_into_validated_orders_from(
                  book, Tail(keys), valid_orders,
                  OfferorAllocations_add_from_order(allocations, order))

Offers_into_validated_orders(book, allocations) ==
    Offers_into_validated_orders_from(book, KeysInOrder(DOMAIN book), <<>>, allocations)

BidPrice(bid) == bid.bid_price_revealed

OfferPrice(offer) == offer.offer_price_revealed

\* The sort key of either kind of order.
PriceOf(order) ==
    IF "bid_price_revealed" \in DOMAIN order THEN BidPrice(order) ELSE OfferPrice(order)

\* slice::sort_by is stable: an order goes behind the orders that compare
\* less than or equal to it.
RECURSIVE InsertByPrice_before_equals(_, _)
InsertByPrice_before_equals(sorted, order) ==
    IF sorted = <<>>
    THEN <<order>>
    ELSE IF U256_le(PriceOf(order), PriceOf(Head(sorted)))
         THEN <<order>> \o sorted
         ELSE <<Head(sorted)>> \o InsertByPrice_before_equals(Tail(sorted), order)

RECURSIVE InsertByPrice(_, _)
InsertByPrice(sorted, order) ==
    IF sorted = <<>>
    THEN <<order>>
    ELSE IF U256_lt(PriceOf(order), PriceOf(Head(sorted)))
         THEN <<order>> \o sorted
         ELSE <<Head(sorted)>> \o InsertByPrice(Tail(sorted), order)

RECURSIVE StableSortByPrice(_)
StableSortByPrice(orders) ==
    IF orders = <<>>
    THEN <<>>
    ELSE InsertByPrice(StableSortByPrice(Front0(orders)), orders[Len(orders)])

ValidatedBids_sort_orders(orders) == StableSortByPrice(orders)

ValidatedOffers_sort_orders(orders) == StableSortByPrice(orders)

\* ValidatedOrders::unlock_outstanding_orders
RECURSIVE ValidatedBids_unlock_outstanding_orders(_, _)
ValidatedBids_unlock_outstanding_orders(orders, allocations) ==
    IF orders = <<>>
    THEN allocations
    ELSE ValidatedBids_unlock_outstanding_orders(
             Tail(orders), BidderAllocations_add_from_order(allocations, Head(orders)))

RECURSIVE ValidatedOffers_unlock_outstanding_orders(_, _)
ValidatedOffers_unlock_outstanding_orders(orders, allocations) ==
    IF orders = <<>>
    THEN allocations
    ELSE ValidatedOffers_unlock_outstanding_orders(
             Tail(orders), OfferorAllocations_add_from_order(allocations, Head(orders)))

----------------------------------------------------------------------------
(* Clearing: lib/src/auction/mod.rs.  A usize that would go below zero, an *)
(* index past the end of a vector and a division by zero all end the run:  *)
(* the operators report it in the field abort.                             *)

\* The body of the loop of increase_cum_sum_bids from index i on.
RECURSIVE increase_cum_sum_bids_loop(_, _, _, _)
increase_cum_sum_bids_loop(orders, idx, cum, current_price) ==
    IF U256_le(current_price, BidPrice(At(orders, idx)))
    THEN IF idx = 0
         THEN [cum_sum_bids |-> wrapping_add(cum, At(orders, idx).amount),
               index |-> idx, abort |-> TRUE]
         ELSE IF idx - 1 = 0
              THEN [cum_sum_bids |-> wrapping_add(cum, At(orders, idx).amount),
                    index |-> 0, abort |-> FALSE]
              ELSE increase_cum_sum_bids_loop(
                       orders, idx - 1,
                       wrapping_add(cum, At(orders, idx).amount), current_price)
    ELSE [cum_sum_bids |-> cum, index |-> idx, abort |-> FALSE]

increase_cum_sum_bids(orders, start_index, prev_cum_sum_bids, current_price) ==
    LET r == increase_cum_sum_bids_loop(orders, start_index, prev_cum_sum_bids,
                                        current_price)
    IN  IF r.abort
        THEN r
        ELSE [r EXCEPT !.index =
                 IF U256_lt(BidPrice(At(orders, r.index)), current_price)
                 THEN r.index + 1
                 ELSE r.index]

RECURSIVE decrease_cum_sum_bids(_, _, _, _)
decrease_cum_sum_bids(orders, start_index, prev_cum_sum_bids, current_price) ==
    IF start_index < Len(orders)
       /\ U256_lt(BidPrice(At(orders, start_index)), current_price)
    THEN decrease_cum_sum_bids(
             orders, start_index + 1,
             wrapping_sub(prev_cum_sum_bids, At(orders, start_index).amount),
             current_price)
    ELSE [cum_sum_bids |-> prev_cum_sum_bids, index |-> start_index]

\* Lines 56-61: the offers at next_offer_price enter the cumulative sum.
RECURSIVE NextOfferGroup(_, _, _, _)
NextOfferGroup(orders, idx, cum, price) ==
    IF idx < Len(orders) /\ OfferPrice(At(orders, idx)) = price
    THEN NextOfferGroup(orders, idx + 1,
                        wrapping_add(cum, At(orders, idx).amount), price)
    ELSE [cum_sum_offers |-> cum, index |-> idx]

\* Lines 95-100: the bids at next_bid_price leave the cumulative sum.
RECURSIVE NextBidGroup(_, _, _, _)
NextBidGroup(orders, idx, cum, price) ==
    IF idx < Len(orders) /\ BidPrice(At(orders, idx)) = price
    THEN NextBidGroup(orders, idx + 1,
                      wrapping_sub(cum, At(orders, idx).amount), price)
    ELSE [cum_sum_bids |-> cum, index |-> idx]

\* Lines 82-86.
NextOfferPriceAt(orders, idx) ==
    IF idx < Len(orders) THEN OfferPrice(At(orders, idx)) ELSE U256_MAX

\* Lines 133-139.
RECURSIVE next_offer_price_index(_, _, _)
next_offer_price_index(orders, idx, shifted_offer_index) ==
    IF idx > 0
       /\ OfferPrice(At(orders, idx)) = OfferPrice(At(orders, shifted_offer_index))
    THEN next_offer_price_index(orders, idx - 1, shifted_offer_index)
    ELSE idx

\* Lines 148-152.
RECURSIVE next_bid_price_index(_, _, _)
next_bid_price_index(orders, idx, at_bid_index) ==
    IF idx < Len(orders) - 1
       /\ BidPrice(At(orders, idx)) = BidPrice(At(orders, at_bid_index))
    THEN next_bid_price_index(orders, idx + 1, at_bid_index)
    ELSE idx

AverageNotHalved(low, high) == low + high

\* Lines 154-156.
AverageCentered(low, high) == (low + high) \div 2

\* Lines 131-157 with clearing_offset = 1.
ClearingPriceOf(sorted_bids, sorted_offers, shifted_offer_index, at_bid_index) ==
    LET nopi == next_offer_price_index(sorted_offers, shifted_offer_index,
                                       shifted_offer_index)
        start == IF at_bid_index = Len(sorted_bids)
                 THEN at_bid_index - 1
                 ELSE at_bid_index
        nbpi == next_bid_price_index(sorted_bids, start, at_bid_index)
    IN  AverageCentered(OfferPrice(At(sorted_offers, nopi)),
                        BidPrice(At(sorted_bids, nbpi)))

\* Lines 170-175.
RECURSIVE OffersUpTo(_, _, _, _)
OffersUpTo(orders, idx, cum, price) ==
    IF idx < Len(orders) /\ U256_le(OfferPrice(At(orders, idx)), price)
    THEN OffersUpTo(orders, idx + 1, wrapping_add(cum, At(orders, idx).amount), price)
    ELSE [cum_sum_offers |-> cum, index |-> idx]

\* Lines 177-183.
RECURSIVE OffersDownTo(_, _, _, _)
OffersDownTo(orders, idx, cum, price) ==
    IF U256_lt(price, OfferPrice(At(orders, idx)))
    THEN IF idx = 0
         THEN [cum_sum_offers |-> wrapping_sub(cum, At(orders, idx).amount),
               index |-> idx]
         ELSE OffersDownTo(orders, idx - 1,
                           wrapping_sub(cum, At(orders, idx).amount), price)
    ELSE [cum_sum_offers |-> cum, index |-> idx]

\* Lines 168-184.
FinalCumSumOffers(orders, shifted_offer_index, cum, price) ==
    IF U256_le(OfferPrice(At(orders, shifted_offer_index)), price)
    THEN OffersUpTo(orders, shifted_offer_index + 1, cum, price)
    ELSE OffersDownTo(orders, shifted_offer_index, cum, price)

\* Lines 187-192.
FinalCumSumBids(orders, at_bid_index, cum, price) ==
    IF at_bid_index < Len(orders)
       /\ U256_lt(BidPrice(At(orders, at_bid_index)), price)
    THEN [cum_sum_bids |-> decrease_cum_sum_bids(orders, at_bid_index, cum,
                                                 price).cum_sum_bids,
          abort |-> FALSE]
    ELSE IF at_bid_index > 0
         THEN LET r == increase_cum_sum_bids(orders, at_bid_index - 1, cum, price)
              IN  [cum_sum_bids |-> r.cum_sum_bids, abort |-> r.abort]
         ELSE [cum_sum_bids |-> cum, abort |-> FALSE]

\* f64 arithmetic of calculate_repurchase_price: day_count * clearing_price
\* over DAYS_IN_YEAR * BPS, one added, times the purchase price, truncated.
\* Every product of the model is an integer below 2^53, and on the values
\* of the model (prices 1 .. MaxPrice with amounts up to 2 in an auction;
\* prices 1 and 1000 with amounts 1, 2, 60 and 100 in a call on one order;
\* 360 days) the truncated f64 product is the purchase price plus the integer
\* quotient purchase_price * day_count * clearing_price / (DAYS_IN_YEAR * BPS).
calculate_repurchase_price(purchase_price, price, day_count) ==
    purchase_price + (purchase_price * day_count * price) \div (DAYS_IN_YEAR * BPS)

RECURSIVE find_first_index_for_price_loop(_, _, _, _)
find_first_index_for_price_loop(price, orders, idx, total_amount) ==
    IF idx = 0 \/ BidPrice(At(orders, idx - 1)) # price
    THEN [k |-> idx, price_group_amount |-> total_amount]
    ELSE find_first_index_for_price_loop(
             price, orders, idx - 1,
             wrapping_add(total_amount, At(orders, idx - 1).amount))

find_first_index_for_price(price, orders, start_index) ==
    find_first_index_for_price_loop(price, orders, start_index,
                                    At(orders, start_index).amount)

\* The loop stops at once while i is before the last offer; at the last
\* offer it reads offers[i + 1], past the end of the vector.
RECURSIVE find_last_index_for_price_loop(_, _, _, _)
find_last_index_for_price_loop(price, orders, idx, total_amount) ==
    IF idx < Len(orders) - 1
    THEN [k |-> idx, price_group_amount |-> total_amount, abort |-> FALSE]
    ELSE IF idx + 1 >= Len(orders)
         THEN [k |-> idx, price_group_amount |-> total_amount, abort |-> TRUE]
         ELSE IF OfferPrice(At(orders, idx + 1)) # price
              THEN [k |-> idx, price_group_amount |-> total_amount, abort |-> FALSE]
              ELSE find_last_index_for_price_loop(
                       price, orders, idx + 1,
                       wrapping_add(total_amount, At(orders, idx + 1).amount))

find_last_index_for_price(price, orders, start_index) ==
    find_last_index_for_price_loop(price, orders, start_index,
                                   At(orders, start_index).amount)

----------------------------------------------------------------------------
(* Assignment of single orders: AssignableOrder for Bid and for Offer.     *)
(* Each operator gives the allocations after the call and the amount it    *)
(* returns.                                                                *)

Bid_fully_assign(bid, price, day_count, allocations) ==
    LET repurchase_amount == calculate_repurchase_price(bid.amount, price, day_count)
        a0 == BidderAllocations_get_allocation(allocations, bid.bidder)
        a1 == BidderAllocation_update_purchase_amount(a0, bid.amount)
        a2 == BidderAllocation_update_repurchase_obligation(
                  a1, repurchase_amount, bid.collateral_amount)
    IN  [allocations |-> MapPut(allocations, bid.bidder, a2), amount |-> bid.amount]

\* The mutant of partially_assign that books the assigned share of the
\* collateral only.
Bid_partially_assign_pro_rata(bid, price, day_count, assigned_amount, allocations) ==
    LET repurchase_amount == calculate_repurchase_price(assigned_amount, price,
                                                        day_count)
        a0 == BidderAllocations_get_allocation(allocations, bid.bidder)
        a1 == BidderAllocation_update_purchase_amount(a0, assigned_amount)
        a2 == BidderAllocation_update_repurchase_obligation(
                  a1, repurchase_amount,
                  (bid.collateral_amount * assigned_amount) \div bid.amount)
    IN  [allocations |-> MapPut(allocations, bid.bidder, a2),
         amount |-> assigned_amount]

Bid_partially_assign(bid, price, day_count, assigned_amount, allocations) ==
    LET repurchase_amount == calculate_repurchase_price(assigned_amount, price,
                                                        day_count)
        a0 == BidderAllocations_get_allocation(allocations, bid.bidder)
        a1 == BidderAllocation_update_purchase_amount(a0, assigned_amount)
        a2 == BidderAllocation_update_repurchase_obligation(
                  a1, repurchase_amount, bid.collateral_amount)
    IN  [allocations |-> MapPut(allocations, bid.bidder, a2),
         amount |-> assigned_amount]

Bid_unlock(bid, allocations) == BidderAllocations_add_from_order(allocations, bid)

Offer_fully_assign(offer, price, day_count, allocations) ==
    LET repurchase_amount == calculate_repurchase_price(offer.amount, price,
                                                        day_count)
        a0 == OfferorAllocations_get_allocation(allocations, offer.offeror)
        a1 == OfferorAllocation_update_repo_amount(a0, repurchase_amount)
    IN  [allocations |-> MapPut(allocations, offer.offeror, a1),
         amount |-> offer.amount]

\* The mutant of partially_assign that refunds nothing.
Offer_partially_assign_no_refund(offer, price, day_count, assigned_amount, allocations) ==
    LET repurchase_amount == calculate_repurchase_price(assigned_amount, price,
                                                        day_count)
        a0 == OfferorAllocations_get_allocation(allocations, offer.offeror)
        a1 == OfferorAllocation_update_repo_amount(a0, repurchase_amount)
    IN  [allocations |-> MapPut(allocations, offer.offeror, a1),
         amount |-> assigned_amount]

Offer_partially_assign(offer, price, day_count, assigned_amount, allocations) ==
    LET repurchase_amount == calculate_repurchase_price(assigned_amount, price,
                                                        day_count)
        a0 == OfferorAllocations_get_allocation(allocations, offer.offeror)
        a1 == OfferorAllocation_update_repo_amount(a0, repurchase_amount)
        a2 == OfferorAllocation_update_purchase_amount(
                  a1, wrapping_sub(offer.amount, assigned_amount))
    IN  [allocations |-> MapPut(allocations, offer.offeror, a2),
         amount |-> assigned_amount]

Offer_unlock(offer, allocations) ==
    OfferorAllocations_add_from_order(allocations, offer)

\* One call on one order, as the price-group records keep it.
Call(index, kind, amount) == [index |-> index, kind |-> kind, amount |-> amount]

----------------------------------------------------------------------------
(* The inner loops of ValidatedBids::assign.  st carries inner_index,      *)
(* total (total_assigned_bids), price_group_amount, allocations, the calls *)
(* made so far and abort.                                                  *)

\* assign_bids.rs:89-98
RECURSIVE BidsFullLoop(_, _, _, _, _, _)
BidsFullLoop(orders, at_i, k, price, day_count, st) ==
    IF at_i - st.inner_index >= k
    THEN LET bid == At(orders, at_i - st.inner_index)
             r == Bid_fully_assign(bid, price, day_count, st.allocations)
             after == [st EXCEPT
                          !.total = wrapping_add(@, r.amount),
                          !.allocations = r.allocations,
                          !.calls = Append(@, Call(at_i - st.inner_index, "full",
                                                   r.amount))]
         IN  IF at_i = st.inner_index
             THEN after
             ELSE BidsFullLoop(orders, at_i, k, price, day_count,
                               [after EXCEPT !.inner_index = @ + 1])
    ELSE st

\* assign_bids.rs:110-136
RECURSIVE BidsPartialLoop(_, _, _, _, _, _, _)
BidsPartialLoop(orders, at_i, k, limit, price, day_count, st) ==
    IF st.inner_index > at_i
    THEN [st EXCEPT !.abort = TRUE]
    ELSE IF at_i - st.inner_index >= k
    THEN LET bid == At(orders, at_i - st.inner_index) IN
         IF at_i - st.inner_index = k
         THEN LET r == Bid_partially_assign(
                           bid, price, day_count,
                           wrapping_sub(limit, st.total), st.allocations)
                  total == wrapping_add(st.total, r.amount)
              IN  BidsPartialLoop(
                      orders, at_i, k, limit, price, day_count,
                      [st EXCEPT
                          !.total = total,
                          !.price_group_amount =
                              wrapping_sub(@, wrapping_sub(limit, total)),
                          !.allocations = r.allocations,
                          !.calls = Append(@, Call(at_i - st.inner_index,
                                                   "partial", r.amount)),
                          !.inner_index = @ + 1])
         ELSE IF st.price_group_amount = 0
              THEN [st EXCEPT !.abort = TRUE]
              ELSE LET assigned_amount ==
                           (bid.amount * wrapping_sub(limit, st.total))
                               \div st.price_group_amount
                       r == Bid_partially_assign(bid, price, day_count,
                                                 assigned_amount, st.allocations)
                   IN  BidsPartialLoop(
                           orders, at_i, k, limit, price, day_count,
                           [st EXCEPT
                               !.total = wrapping_add(@, r.amount),
                               !.price_group_amount = wrapping_sub(@, bid.amount),
                               !.allocations = r.allocations,
                               !.calls = Append(@, Call(at_i - st.inner_index,
                                                        "partial", r.amount)),
                               !.inner_index = @ + 1])
    ELSE st

\* assign_bids.rs:75-146: one pass of the outer loop with j = at_j.
ValidatedBids_assign_pass(orders, at_j, total, limit, price, day_count, allocations) ==
    LET at_i == at_j - 1
        bid == At(orders, at_i)
        found == find_first_index_for_price(BidPrice(bid), orders, at_i)
        st0 == [inner_index |-> 0, total |-> total,
                price_group_amount |-> found.price_group_amount,
                allocations |-> allocations, calls |-> <<>>, abort |-> FALSE]
        eligible == /\ U256_le(price, BidPrice(bid))
                    /\ U256_lt(total, limit)
        full == /\ eligible
                /\ U256_le(found.price_group_amount, wrapping_sub(limit, total))
        st == IF full
              THEN BidsFullLoop(orders, at_i, found.k, price, day_count, st0)
              ELSE IF eligible
                   THEN BidsPartialLoop(orders, at_i, found.k, limit, price,
                                        day_count, st0)
                   ELSE [st0 EXCEPT
                            !.allocations = Bid_unlock(bid, allocations),
                            !.calls = <<Call(at_i, "unlock", 0)>>]
        branch == IF full THEN "full" ELSE IF eligible THEN "partial" ELSE "none"
        next_j == IF branch # "none" /\ st.inner_index > 0
                  THEN at_j - (st.inner_index - 1) - 1
                  ELSE at_j - 1
    IN  [j |-> next_j, total |-> st.total, allocations |-> st.allocations,
         abort |-> st.abort,
         group |-> [i |-> at_i, k |-> found.k,
                    price_group_amount |-> found.price_group_amount,
                    total_before |-> total, branch |-> branch,
                    calls |-> st.calls]]

\* ValidatedBids::assign (assign_bids.rs:61-148): the passes of the outer
\* loop from j = at_j down to 0, or to the pass that panics.
RECURSIVE ValidatedBids_assign(_, _, _, _, _, _, _)
ValidatedBids_assign(orders, at_j, total, limit, price, day_count, allocations) ==
    IF at_j <= 0
    THEN [allocations |-> allocations, total |-> total, abort |-> FALSE]
    ELSE LET r == ValidatedBids_assign_pass(orders, at_j, total, limit, price,
                                            day_count, allocations)
         IN  IF r.abort
             THEN [allocations |-> r.allocations, total |-> r.total, abort |-> TRUE]
             ELSE ValidatedBids_assign(orders, r.j, r.total, limit, price, day_count,
                                       r.allocations)

----------------------------------------------------------------------------
(* The inner loops of ValidatedOffers::assign. *)

\* assign_offers.rs:81-86
RECURSIVE OffersFullLoop(_, _, _, _, _, _)
OffersFullLoop(orders, at_i, k, price, day_count, st) ==
    IF st.inner_index + at_i < k
    THEN LET offer == At(orders, st.inner_index + at_i)
             r == Offer_fully_assign(offer, price, day_count, st.allocations)
         IN  OffersFullLoop(
                 orders, at_i, k, price, day_count,
                 [st EXCEPT
                     !.total = wrapping_add(@, r.amount),
                     !.allocations = r.allocations,
                     !.calls = Append(@, Call(st.inner_index + at_i, "full",
                                              r.amount)),
                     !.inner_index = @ + 1])
    ELSE st

\* assign_offers.rs:96-125: inside the loop inner_index + i < k, so the
\* branch of the last iteration (line 97) is never the one taken.
RECURSIVE OffersPartialLoop(_, _, _, _, _, _, _)
OffersPartialLoop(orders, at_i, k, limit, price, day_count, st) ==
    IF st.inner_index + at_i < k
    THEN LET offer == At(orders, st.inner_index + at_i) IN
         IF st.price_group_amount = 0
         THEN [st EXCEPT !.abort = TRUE]
         ELSE LET assigned_amount ==
                      (offer.amount * wrapping_sub(limit, st.total))
                          \div st.price_group_amount
                  r == Offer_partially_assign(offer, price, day_count,
                                              assigned_amount, st.allocations)
              IN  OffersPartialLoop(
                      orders, at_i, k, limit, price, day_count,
                      [st EXCEPT
                          !.total = wrapping_add(@, r.amount),
                          !.price_group_amount = wrapping_sub(@, offer.amount),
                          !.allocations = r.allocations,
                          !.calls = Append(@, Call(st.inner_index + at_i,
                                                   "partial", r.amount)),
                          !.inner_index = @ + 1])
    ELSE st

\* assign_offers.rs:69-134: one pass of the outer loop with i = at_i.
ValidatedOffers_assign_pass(orders, at_i, total, limit, price, day_count, allocations) ==
    LET offer == At(orders, at_i)
        found == find_last_index_for_price(OfferPrice(offer), orders, at_i)
        st0 == [inner_index |-> 0, total |-> total,
                price_group_amount |-> found.price_group_amount,
                allocations |-> allocations, calls |-> <<>>, abort |-> FALSE]
        eligible == /\ U256_le(OfferPrice(offer), price)
                    /\ U256_lt(total, limit)
        full == /\ eligible
                /\ U256_lt(found.price_group_amount, wrapping_sub(limit, total))
        branch == IF full THEN "full" ELSE IF eligible THEN "partial" ELSE "none"
        st == IF found.abort
              THEN [st0 EXCEPT !.abort = TRUE]
              ELSE IF full
              THEN OffersFullLoop(orders, at_i, found.k, price, day_count, st0)
              ELSE IF eligible
                   THEN OffersPartialLoop(orders, at_i, found.k, limit, price,
                                          day_count, st0)
                   ELSE [st0 EXCEPT
                            !.allocations = Offer_unlock(offer, allocations),
                            !.calls = <<Call(at_i, "unlock", 0)>>]
        next_i == IF branch # "none" /\ st.inner_index > 0
                  THEN at_i + (st.inner_index - 1) + 1
                  ELSE at_i + 1
    IN  [i |-> next_i, total |-> st.total, allocations |-> st.allocations,
         abort |-> st.abort,
         group |-> [i |-> at_i, k |-> found.k,
                    price_group_amount |-> found.price_group_amount,
                    total_before |-> total, branch |-> branch,
                    calls |-> st.calls]]

----------------------------------------------------------------------------
(* Exit leaves and their tree: lib/src/types/exit_tree.rs,                 *)
(* lib/src/types/allocations.rs, lean_imt/src/lib.rs                       *)

\* The prover of an auction.
ProverAddress == 0

\* A field of a packed encoding: its width in bytes and its value.
Packed(width, value) == <<width, value>>

ExitLeaf_TokenWithdrawal(recipient, token, amount) ==
    [kind |-> "TokenWithdrawal", recipient |-> recipient, token |-> token,
     amount |-> amount]

ExitLeaf_RepoTokenWithdrawal(recipient, amount) ==
    [kind |-> "RepoTokenWithdrawal", recipient |-> recipient, amount |-> amount]

ExitLeaf_RepurchaseObligation(debtor, repurchase_amount, collateral_amount) ==
    [kind |-> "RepurchaseObligation", debtor |-> debtor,
     repurchaseAmount |-> repurchase_amount, collateralAmount |-> collateral_amount]

\* ExitLeaf::hash: the hash of the packed encoding of the struct.
ExitLeaf_hash(leaf) ==
    Hash(CASE leaf.kind = "TokenWithdrawal" ->
                  <<Packed(20, leaf.recipient), Packed(20, leaf.token),
                    Packed(32, leaf.amount)>>
           [] leaf.kind = "RepoTokenWithdrawal" ->
                  <<Packed(20, leaf.recipient), Packed(32, leaf.amount)>>
           [] OTHER ->
                  <<Packed(20, leaf.debtor), Packed(32, leaf.repurchaseAmount),
                    Packed(32, leaf.collateralAmount)>>)

\* HashableStruct::hash of the auction parameters.
AuctionParameters_hash(parameters) ==
    Hash(<<Packed(20, parameters.purchaseToken), Packed(32, parameters.purchasePrice),
           Packed(20, parameters.collateralToken), Packed(32, parameters.collateralPrice),
           Packed(32, parameters.dayCount)>>)

ProverAllocation_new(prover_address) ==
    [prover_address |-> prover_address, purchase_amount |-> 0]

ProverAllocation_into_exit_leaves(allocation, tokens, leaves) ==
    IF allocation.purchase_amount # 0
    THEN Append(leaves, ExitLeaf_TokenWithdrawal(allocation.prover_address,
                                                 tokens.purchaseToken,
                                                 allocation.purchase_amount))
    ELSE leaves

\* The mutant of into_exit_leaves that pushes the collateral withdrawal
\* before the purchase withdrawal.
BidderAllocation_into_exit_leaves_swapped(allocation, address, tokens, leaves) ==
    LET l1 == IF allocation.collateral_amount # 0
              THEN Append(leaves, ExitLeaf_TokenWithdrawal(
                                      address, tokens.collateralToken,
                                      allocation.collateral_amount))
              ELSE leaves
        l2 == IF allocation.purchase_amount # 0
              THEN Append(l1, ExitLeaf_TokenWithdrawal(
                                  address, tokens.purchaseToken,
                                  allocation.purchase_amount))
              ELSE l1
    IN  IF allocation.repurchase_obligation # DefaultBidderAllocation.repurchase_obligation
        THEN Append(l2, ExitLeaf_RepurchaseObligation(
                            address,
                            allocation.repurchase_obligation.repurchase_amount,
                            allocation.repurchase_obligation.collateral_amount))
        ELSE l2

\* bidder_allocations.rs:100-126
BidderAllocation_into_exit_leaves(allocation, address, tokens, leaves) ==
    LET l1 == IF allocation.purchase_amount # 0
              THEN Append(leaves, ExitLeaf_TokenWithdrawal(
                                      address, tokens.purchaseToken,
                                      allocation.purchase_amount))
              ELSE leaves
        l2 == IF allocation.collateral_amount # 0
              THEN Append(l1, ExitLeaf_TokenWithdrawal(
                                  address, tokens.collateralToken,
                                  allocation.collateral_amount))
              ELSE l1
    IN  IF allocation.repurchase_obligation # DefaultBidderAllocation.repurchase_obligation
        THEN Append(l2, ExitLeaf_RepurchaseObligation(
                            address,
                            allocation.repurchase_obligation.repurchase_amount,
                            allocation.repurchase_obligation.collateral_amount))
        ELSE l2

\* offeror_allocations.rs:53-68
OfferorAllocation_into_exit_leaves(allocation, address, tokens, leaves) ==
    LET l1 == IF allocation.repo_amount # 0
              THEN Append(leaves, ExitLeaf_RepoTokenWithdrawal(address,
                                                               allocation.repo_amount))
              ELSE leaves
    IN  IF allocation.purchase_amount # 0
        THEN Append(l1, ExitLeaf_TokenWithdrawal(address, tokens.purchaseToken,
                                                 allocation.purchase_amount))
        ELSE l1

\* BTreeMap<Address, _>::into_iter: the addresses in ascending order.
RECURSIVE AddressesInOrder(_)
AddressesInOrder(addresses) ==
    IF addresses = {}
    THEN <<>>
    ELSE LET least == CHOOSE a \in addresses : \A other \in addresses : a <= other
         IN  <<least>> \o AddressesInOrder(addresses \ {least})

RECURSIVE BidderAllocations_into_exit_leaves(_, _, _, _)
BidderAllocations_into_exit_leaves(allocations, addresses, tokens, leaves) ==
    IF addresses = <<>>
    THEN leaves
    ELSE BidderAllocations_into_exit_leaves(
             allocations, Tail(addresses), tokens,
             BidderAllocation_into_exit_leaves(allocations[Head(addresses)],
                                               Head(addresses), tokens, leaves))

RECURSIVE OfferorAllocations_into_exit_leaves(_, _, _, _)
OfferorAllocations_into_exit_leaves(allocations, addresses, tokens, leaves) ==
    IF addresses = <<>>
    THEN leaves
    ELSE OfferorAllocations_into_exit_leaves(
             allocations, Tail(addresses), tokens,
             OfferorAllocation_into_exit_leaves(allocations[Head(addresses)],
                                                Head(addresses), tokens, leaves))

\* Allocations::into_exit_leaves (types/allocations.rs:134-144): the prover,
\* then the bidders, then the offerors.
AuctionResults_into_exit_leaves(prover, bidders, offerors, tokens, leaves) ==
    LET l1 == ProverAllocation_into_exit_leaves(prover, tokens, leaves)
        l2 == BidderAllocations_into_exit_leaves(
                  bidders, AddressesInOrder(DOMAIN bidders), tokens, l1)
    IN  OfferorAllocations_into_exit_leaves(
            offerors, AddressesInOrder(DOMAIN offerors), tokens, l2)

\* The hash of two nodes: the hash of their concatenation.
HashPair(left, right) == Hash(<<left, right>>)

\* The mutant of the pairing that hashes a lone node with itself.
PairUp_duplicating(level) ==
    [n \in 1..(Len(level) + 1) \div 2 |->
        IF 2 * n <= Len(level)
        THEN HashPair(level[2 * n - 1], level[2 * n])
        ELSE HashPair(level[2 * n - 1], level[2 * n - 1])]

\* chunks(2).map(..): adjacent nodes hashed in pairs, a lone last node kept.
PairUp(level) ==
    [n \in 1..(Len(level) + 1) \div 2 |->
        IF 2 * n <= Len(level)
        THEN HashPair(level[2 * n - 1], level[2 * n])
        ELSE level[2 * n - 1]]

\* exit_tree.rs:124-137: pair up until one node is left.
RECURSIVE hash_exit_root_loop(_)
hash_exit_root_loop(current_level) ==
    IF Len(current_level) > 1
    THEN hash_exit_root_loop(PairUp(current_level))
    ELSE current_level[1]

\* ExitTree::hash_exit_root of the exit leaves (exit_tree.rs:112-139).
ExitLeaves_hash_exit_root(leaves) ==
    IF leaves = <<>>
    THEN B256_ZERO
    ELSE hash_exit_root_loop([n \in 1..Len(leaves) |-> ExitLeaf_hash(leaves[n])])

\* (size as f64).log2().ceil(): the least d with 2^d >= size.
RECURSIVE CeilLog2From(_, _)
CeilLog2From(size, d) == IF 2^d >= size THEN d ELSE CeilLog2From(size, d + 1)

\* LeanIncrementalMerkleTree::insert_many into the empty tree
\* (lean_imt/src/lib.rs:115-144): start_index is 0, so every parent of every
\* level is computed and pushed; nodes holds the levels built so far.
RECURSIVE LeanIMT_insert_levels(_, _, _)
LeanIMT_insert_levels(nodes, level, depth) ==
    IF level >= depth
    THEN nodes
    ELSE LET below == At(nodes, level)
             num_nodes == (Len(below) + 1) \div 2
             parents == [index \in 0..num_nodes - 1 |->
                            IF index * 2 + 1 < Len(below)
                            THEN HashPair(At(below, index * 2), At(below, index * 2 + 1))
                            ELSE At(below, index * 2)]
         IN  LeanIMT_insert_levels(
                 Append(nodes, [n \in 1..num_nodes |-> parents[n - 1]]), level + 1, depth)

\* LeanIncrementalMerkleTree::new: the levels of the tree, the leaves first.
LeanIncrementalMerkleTree_new(leaves) ==
    IF leaves = <<>>
    THEN <<<<>>>>
    ELSE LeanIMT_insert_levels(<<leaves>>, 0, CeilLog2From(Len(leaves), 0))

\* LeanIncrementalMerkleTree::root: the first node of the top level.
LeanIncrementalMerkleTree_root(nodes) ==
    LET top == nodes[Len(nodes)]
    IN  IF top = <<>> THEN B256_ZERO ELSE top[1]

\* The index a proof carries: the path bits, reversed and folded from the
\* most significant one, so that bit i of the index is the i-th bit pushed.
\* The mutant folds the path without reversing it.
RECURSIVE PathToIndex_unreversed_from(_, _)
PathToIndex_unreversed_from(path, acc) ==
    IF path = <<>>
    THEN acc
    ELSE PathToIndex_unreversed_from(Tail(path), acc * 2 + (IF Head(path) THEN 1 ELSE 0))

PathToIndex_unreversed(path) == PathToIndex_unreversed_from(path, 0)

RECURSIVE PathToIndex_from(_, _)
PathToIndex_from(reversed_path, acc) ==
    IF reversed_path = <<>>
    THEN acc
    ELSE PathToIndex_from(Tail(reversed_path),
                          acc * 2 + (IF Head(reversed_path) THEN 1 ELSE 0))

PathToIndex(path) ==
    PathToIndex_from([n \in 1..Len(path) |-> path[Len(path) + 1 - n]], 0)

\* The loop of generate_proof (lean_imt/src/lib.rs:168-182): a level with a
\* sibling pushes a path bit and the sibling, a level without one pushes
\* nothing.
RECURSIVE generate_proof_loop(_, _, _, _, _)
generate_proof_loop(nodes, level, current_index, siblings, path) ==
    IF level >= Len(nodes) - 1
    THEN [siblings |-> siblings, path |-> path]
    ELSE LET is_right_node == current_index % 2 = 1
             sibling_index == IF is_right_node THEN current_index - 1
                                               ELSE current_index + 1
             has_sibling == sibling_index < Len(At(nodes, level))
         IN  generate_proof_loop(
                 nodes, level + 1, current_index \div 2,
                 IF has_sibling
                 THEN Append(siblings, At(At(nodes, level), sibling_index))
                 ELSE siblings,
                 IF has_sibling THEN Append(path, is_right_node) ELSE path)

\* LeanIncrementalMerkleTree::generate_proof (lean_imt/src/lib.rs:155-194).
LeanIncrementalMerkleTree_generate_proof(nodes, index) ==
    IF index >= Len(nodes[1])
    THEN [is_ok |-> FALSE, root |-> B256_ZERO, leaf |-> B256_ZERO, index |-> 0,
          siblings |-> <<>>]
    ELSE LET walk == generate_proof_loop(nodes, 0, index, <<>>, <<>>)
         IN  [is_ok |-> TRUE,
              root |-> LeanIncrementalMerkleTree_root(nodes),
              leaf |-> At(nodes[1], index),
              index |-> PathToIndex(walk.path),
              siblings |-> walk.siblings]

\* The loop of verify_proof (lean_imt/src/lib.rs:212-218), at sibling i.
RECURSIVE verify_proof_loop(_, _, _, _)
verify_proof_loop(node, siblings, index, at) ==
    IF at >= Len(siblings)
    THEN node
    ELSE verify_proof_loop(
             IF (index \div 2^at) % 2 = 1
             THEN HashPair(At(siblings, at), node)
             ELSE HashPair(node, At(siblings, at)),
             siblings, index, at + 1)

\* LeanIncrementalMerkleTree::verify_proof (lean_imt/src/lib.rs:209-221).
LeanIncrementalMerkleTree_verify_proof(proof) ==
    proof.root = verify_proof_loop(proof.leaf, proof.siblings, proof.index, 0)

----------------------------------------------------------------------------
(* run_auction: lib/src/lib.rs:55-135 *)

\* The order keys of an auction, in ascending order.
AuctionBidKeys == <<get_key(1, 1), get_key(1, 2), get_key(2, 1)>>

AuctionOfferKeys == <<get_key(1, 1), get_key(2, 1), get_key(2, 2)>>

OrderAmounts == {1, 2}

\* The revealed prices of an auction: the lowest price and MaxPrice.
Prices == {1, MaxPrice}

\* What a participant did with an order key: nothing, a submission that
\* was never revealed, or a submission and the reveal of its price.
OrderOptions ==
    {[kind |-> "absent", price |-> 0, amount |-> 0],
     [kind |-> "unrevealed", price |-> 1, amount |-> 1]}
    \cup [kind : {"revealed"}, price : Prices, amount : OrderAmounts]

\* What a bidder did with an order key: any of the above, or a revealed bid
\* whose collateral is one short of the initial collateral ratio.
BidOptions == OrderOptions \cup {[kind |-> "short", price |-> 1, amount |-> 2]}

AuctionNonce == CHOOSE n \in Nonces : TRUE

\* Collateral at exactly the initial collateral ratio, rounded up.
CollateralFor(amount) ==
    (amount * INITIAL_COLLATERAL_RATIO + BPS - 1) \div BPS

BidSubmissionOf(key, option) ==
    [bidder |-> key[1], id |-> key[2],
     bidPriceHash |-> get_price_hash(option.price, AuctionNonce),
     amount |-> option.amount,
     collateralAmount |-> IF option.kind = "short"
                          THEN CollateralFor(option.amount) - 1
                          ELSE CollateralFor(option.amount)]

OfferSubmissionOf(key, option) ==
    [offeror |-> key[1], id |-> key[2],
     offerPriceHash |-> get_price_hash(option.price, AuctionNonce),
     amount |-> option.amount,
     purchaseToken |-> PurchaseTokenAddress]

RevealOf(key, option) ==
    [orderId |-> key, price |-> option.price, nonce |-> AuctionNonce]

\* The events of the keys n..Len(keys) whose option has one of the kinds.
RECURSIVE StreamOf(_, _, _, _, _)
StreamOf(keys, options, kinds, side, n) ==
    IF n > Len(keys)
    THEN <<>>
    ELSE (IF options[n].kind \in kinds
          THEN <<CASE side = "bid_submission" -> BidSubmissionOf(keys[n], options[n])
                   [] side = "offer_submission" -> OfferSubmissionOf(keys[n], options[n])
                   [] OTHER -> RevealOf(keys[n], options[n])>>
          ELSE <<>>)
         \o StreamOf(keys, options, kinds, side, n + 1)

Init ==
    /\ \E bid_options \in [1..Len(AuctionBidKeys) -> BidOptions],
          offer_options \in [1..Len(AuctionOfferKeys) -> OrderOptions] :
         /\ bid_submissions = StreamOf(AuctionBidKeys, bid_options,
                                       {"unrevealed", "revealed", "short"},
                                       "bid_submission", 1)
         /\ bid_reveals = StreamOf(AuctionBidKeys, bid_options,
                                   {"revealed", "short"}, "reveal", 1)
         /\ offer_submissions = StreamOf(AuctionOfferKeys, offer_options,
                                         {"unrevealed", "revealed"},
                                         "offer_submission", 1)
         /\ offer_reveals = StreamOf(AuctionOfferKeys, offer_options,
                                     {"revealed"}, "reveal", 1)
    /\ auction_parameters = ScenarioParameters
    /\ bids = EmptyMap
    /\ offers = EmptyMap
    /\ acc_bids_hash = B256_ZERO
    /\ acc_offers_hash = B256_ZERO
    /\ pc = "hash_chains"
    /\ InitLocals
    /\ NoCall

\* ChainableSubmissions::hash_chain: the fold of a whole stream.
RECURSIVE BidSubmissions_hash_chain(_, _, _)
BidSubmissions_hash_chain(stream, acc, book) ==
    IF stream = <<>>
    THEN [acc |-> acc, book |-> book]
    ELSE LET st == BidSubmissions_hash_chain_step(acc, book, Head(stream))
         IN  BidSubmissions_hash_chain(Tail(stream), st.acc, st.book)

RECURSIVE BidReveals_hash_chain(_, _, _)
BidReveals_hash_chain(stream, acc, book) ==
    IF stream = <<>>
    THEN [acc |-> acc, book |-> book]
    ELSE LET st == BidReveals_hash_chain_step(acc, book, Head(stream))
         IN  BidReveals_hash_chain(Tail(stream), st.acc, st.book)

RECURSIVE OfferSubmissions_hash_chain(_, _, _)
OfferSubmissions_hash_chain(stream, acc, book) ==
    IF stream = <<>>
    THEN [acc |-> acc, book |-> book]
    ELSE LET st == OfferSubmissions_hash_chain_step(acc, book, Head(stream))
         IN  OfferSubmissions_hash_chain(Tail(stream), st.acc, st.book)

RECURSIVE OfferReveals_hash_chain(_, _, _)
OfferReveals_hash_chain(stream, acc, book) ==
    IF stream = <<>>
    THEN [acc |-> acc, book |-> book]
    ELSE LET st == OfferReveals_hash_chain_step(acc, book, Head(stream))
         IN  OfferReveals_hash_chain(Tail(stream), st.acc, st.book)

\* lib.rs:64-73
HashChains ==
    /\ pc = "hash_chains"
    /\ UNCHANGED <<call_vars, exit_leaves, auction_result_root>>
    /\ tokens_hash' = AuctionParameters_hash(auction_parameters)
    /\ LET bs == BidSubmissions_hash_chain(bid_submissions, B256_ZERO, EmptyMap)
           br == BidReveals_hash_chain(bid_reveals, bs.acc, bs.book)
           os == OfferSubmissions_hash_chain(offer_submissions, B256_ZERO, EmptyMap)
           or == OfferReveals_hash_chain(offer_reveals, os.acc, os.book)
       IN  /\ bids' = br.book
           /\ acc_bids_hash' = br.acc
           /\ offers' = or.book
           /\ acc_offers_hash' = or.acc
    /\ pc' = "validate"
    /\ UNCHANGED <<input_vars, panic, result_vars, clearing_vars,
                   assign_bids_vars, assign_offers_vars>>

\* lib.rs:79-85
Validate ==
    /\ pc = "validate"
    /\ UNCHANGED <<call_vars, exit_vars>>
    /\ LET vb == Bids_into_validated_orders(bids, auction_parameters, EmptyMap)
           vo == Offers_into_validated_orders(offers, EmptyMap)
       IN  /\ validated_bids' = vb.valid_orders
           /\ bidder_allocations' = vb.allocations
           /\ validated_offers' = vo.valid_orders
           /\ offeror_allocations' = vo.allocations
    /\ pc' = "sort"
    /\ UNCHANGED <<input_vars, book_vars, panic, clearing_vars,
                   assign_bids_vars, assign_offers_vars>>

\* lib.rs:87-90
Sort ==
    /\ pc = "sort"
    /\ UNCHANGED <<call_vars, exit_vars>>
    /\ validated_bids' = ValidatedBids_sort_orders(validated_bids)
    /\ validated_offers' = ValidatedOffers_sort_orders(validated_offers)
    /\ pc' = "intersect"
    /\ UNCHANGED <<input_vars, book_vars, panic, bidder_allocations,
                   offeror_allocations, clearing_vars, assign_bids_vars,
                   assign_offers_vars>>

\* lib.rs:93-96
Intersects ==
    /\ validated_bids # <<>>
    /\ validated_offers # <<>>
    /\ U256_le(OfferPrice(validated_offers[1]),
               BidPrice(validated_bids[Len(validated_bids)]))

\* lib.rs:114-118
Unlock ==
    /\ pc = "intersect"
    /\ UNCHANGED <<call_vars, exit_vars>>
    /\ ~Intersects
    /\ bidder_allocations' =
           ValidatedBids_unlock_outstanding_orders(validated_bids, bidder_allocations)
    /\ offeror_allocations' =
           ValidatedOffers_unlock_outstanding_orders(validated_offers,
                                                     offeror_allocations)
    /\ pc' = "exit_leaves"
    /\ UNCHANGED <<input_vars, book_vars, panic, validated_bids, validated_offers,
                   clearing_vars, assign_bids_vars, assign_offers_vars>>

\* compute_clearing_price, auction/mod.rs:26-44
EnterClearing ==
    /\ pc = "intersect"
    /\ UNCHANGED <<call_vars, exit_vars>>
    /\ Intersects
    /\ LET last_offer == validated_offers[Len(validated_offers)]
           r == increase_cum_sum_bids(validated_bids, Len(validated_bids) - 1, 0,
                                      OfferPrice(last_offer))
       IN  /\ offer_index' = 1
           /\ cum_sum_offers' = last_offer.amount
           /\ IF r.abort
              THEN /\ pc' = "aborted"
                   /\ panic' = "increase_cum_sum_bids"
                   /\ bid_index' = Len(validated_bids)
                   /\ UNCHANGED <<cum_sum_bids, max_clearing_volume>>
              ELSE /\ pc' = "pre_clearance"
                   /\ bid_index' = r.index
                   /\ cum_sum_bids' = r.cum_sum_bids
                   /\ max_clearing_volume' =
                          U256_min(r.cum_sum_bids, last_offer.amount)
                   /\ UNCHANGED panic
    /\ UNCHANGED <<input_vars, book_vars, result_vars, next_offer_price,
                   clearing_price, max_assignable, assign_bids_vars,
                   assign_offers_vars>>

\* One pass of the loop of auction/mod.rs:47-79; leaving the loop, lines
\* 82-86 set next_offer_price.
PreClearance ==
    /\ pc = "pre_clearance"
    /\ UNCHANGED <<call_vars, exit_vars>>
    /\ IF offer_index < Len(validated_offers) /\ bid_index < Len(validated_bids)
       THEN LET price == OfferPrice(At(validated_offers, offer_index))
                no == NextOfferGroup(validated_offers, offer_index,
                                     cum_sum_offers, price)
                nb == decrease_cum_sum_bids(validated_bids, bid_index,
                                            cum_sum_bids, price)
                next_max_clearing_volume ==
                    U256_min(nb.cum_sum_bids, no.cum_sum_offers)
            IN  IF U256_lt(max_clearing_volume, next_max_clearing_volume)
                THEN /\ offer_index' = no.index
                     /\ bid_index' = nb.index
                     /\ cum_sum_offers' = no.cum_sum_offers
                     /\ cum_sum_bids' = nb.cum_sum_bids
                     /\ max_clearing_volume' = next_max_clearing_volume
                     /\ next_offer_price' = price
                     /\ pc' = "pre_clearance"
                ELSE /\ next_offer_price' =
                            NextOfferPriceAt(validated_offers, offer_index)
                     /\ pc' = "minimise"
                     /\ UNCHANGED <<offer_index, bid_index, cum_sum_offers,
                                    cum_sum_bids, max_clearing_volume>>
       ELSE /\ next_offer_price' = NextOfferPriceAt(validated_offers, offer_index)
            /\ pc' = "minimise"
            /\ UNCHANGED <<offer_index, bid_index, cum_sum_offers, cum_sum_bids,
                           max_clearing_volume>>
    /\ UNCHANGED <<input_vars, book_vars, panic, result_vars, clearing_price,
                   max_assignable, assign_bids_vars, assign_offers_vars>>

\* One pass of the loop of auction/mod.rs:89-112.
Minimise ==
    /\ pc = "minimise"
    /\ UNCHANGED <<call_vars, exit_vars>>
    /\ IF bid_index < Len(validated_bids)
          /\ U256_lt(BidPrice(At(validated_bids, bid_index)), next_offer_price)
       THEN LET nb == NextBidGroup(validated_bids, bid_index, cum_sum_bids,
                                   BidPrice(At(validated_bids, bid_index)))
            IN  IF U256_lt(nb.cum_sum_bids, cum_sum_offers)
                THEN /\ cum_sum_bids' = nb.cum_sum_bids
                     /\ bid_index' = nb.index
                     /\ pc' = "minimise"
                ELSE /\ pc' = "clearing_price"
                     /\ UNCHANGED <<cum_sum_bids, bid_index>>
       ELSE /\ pc' = "clearing_price"
            /\ UNCHANGED <<cum_sum_bids, bid_index>>
    /\ UNCHANGED <<input_vars, book_vars, panic, result_vars, offer_index,
                   cum_sum_offers, max_clearing_volume, next_offer_price,
                   clearing_price, max_assignable, assign_bids_vars,
                   assign_offers_vars>>

\* auction/mod.rs:128-194 and the start of ValidatedBids::assign
\* (assign_bids.rs:69-72).
ClearingPrice ==
    /\ pc = "clearing_price"
    /\ UNCHANGED <<call_vars, exit_vars>>
    /\ LET shifted == offer_index - 1
           price == ClearingPriceOf(validated_bids, validated_offers, shifted,
                                    bid_index)
           fo == FinalCumSumOffers(validated_offers, shifted, cum_sum_offers,
                                   price)
           fb == FinalCumSumBids(validated_bids, bid_index, cum_sum_bids, price)
       IN  /\ clearing_price' = price
           /\ offer_index' = fo.index
           /\ cum_sum_offers' = fo.cum_sum_offers
           /\ cum_sum_bids' = fb.cum_sum_bids
           /\ IF fb.abort
              THEN /\ pc' = "aborted"
                   /\ panic' = "increase_cum_sum_bids"
                   /\ UNCHANGED <<max_assignable, j>>
              ELSE /\ pc' = "assign_bids"
                   /\ max_assignable' = U256_min(fb.cum_sum_bids, fo.cum_sum_offers)
                   /\ j' = Len(validated_bids)
                   /\ UNCHANGED panic
    /\ UNCHANGED <<input_vars, book_vars, result_vars, bid_index,
                   max_clearing_volume, next_offer_price, total_assigned_bids,
                   bid_groups, assign_offers_vars>>

\* One pass of the outer loop of ValidatedBids::assign (assign_bids.rs:74-147).
AssignBids ==
    /\ pc = "assign_bids"
    /\ UNCHANGED <<call_vars, exit_vars>>
    /\ j > 0
    /\ LET r == ValidatedBids_assign_pass(
                    validated_bids, j, total_assigned_bids, max_assignable,
                    clearing_price, auction_parameters.dayCount,
                    bidder_allocations)
       IN  /\ bid_groups' = Append(bid_groups, r.group)
           /\ total_assigned_bids' = r.total
           /\ bidder_allocations' = r.allocations
           /\ IF r.abort
              THEN /\ pc' = "aborted"
                   /\ panic' = "ValidatedBids::assign"
                   /\ UNCHANGED j
              ELSE /\ j' = r.j
                   /\ pc' = IF r.j > 0 THEN "assign_bids" ELSE "assign_offers"
                   /\ UNCHANGED panic
    /\ UNCHANGED <<input_vars, book_vars, offeror_allocations, validated_bids,
                   validated_offers, clearing_vars, assign_offers_vars>>

\* One pass of the outer loop of ValidatedOffers::assign
\* (assign_offers.rs:68-135); i and total_assigned_offers start at zero.
AssignOffers ==
    /\ pc = "assign_offers"
    /\ UNCHANGED <<call_vars, exit_vars>>
    /\ i < Len(validated_offers)
    /\ LET r == ValidatedOffers_assign_pass(
                    validated_offers, i, total_assigned_offers, max_assignable,
                    clearing_price, auction_parameters.dayCount,
                    offeror_allocations)
       IN  /\ offer_groups' = Append(offer_groups, r.group)
           /\ total_assigned_offers' = r.total
           /\ offeror_allocations' = r.allocations
           /\ IF r.abort
              THEN /\ pc' = "aborted"
                   /\ panic' = "ValidatedOffers::assign"
                   /\ UNCHANGED i
              ELSE /\ i' = r.i
                   /\ pc' = IF r.i < Len(validated_offers)
                            THEN "assign_offers"
                            ELSE "exit_leaves"
                   /\ UNCHANGED panic
    /\ UNCHANGED <<input_vars, book_vars, bidder_allocations, validated_bids,
                   validated_offers, clearing_vars, assign_bids_vars>>

\* lib.rs:120-134: the exit leaves of the auction results and their root.
ExitTree ==
    /\ pc = "exit_leaves"
    /\ LET leaves == AuctionResults_into_exit_leaves(
                         ProverAllocation_new(ProverAddress), bidder_allocations,
                         offeror_allocations, auction_parameters, <<>>)
       IN  /\ exit_leaves' = leaves
           /\ auction_result_root' = ExitLeaves_hash_exit_root(leaves)
    /\ pc' = "done"
    /\ UNCHANGED <<input_vars, book_vars, panic, result_vars, clearing_vars,
                   assign_bids_vars, assign_offers_vars, tokens_hash, call_vars>>

Next ==
    \/ HashChains
    \/ Validate
    \/ Sort
    \/ Unlock
    \/ EnterClearing
    \/ PreClearance
    \/ Minimise
    \/ ClearingPrice
    \/ AssignBids
    \/ AssignOffers
    \/ ExitTree

Spec == Init /\ [][Next]_vars

----------------------------------------------------------------------------
(* Properties of the book layer *)

LastOf(s) == s[Len(s)]

\* The rolling digest of the specification: d0 = seed, d(i+1) = H(di || ei).
RECURSIVE FoldDigest(_, _)
FoldDigest(seed, encoded_events) ==
    IF encoded_events = <<>>
    THEN seed
    ELSE FoldDigest(Hash(<<seed>> \o Head(encoded_events)), Tail(encoded_events))

EncodeAll(events, Encode(_)) == [n \in 1..Len(events) |-> Encode(events[n])]

BidChainEvents ==
    EncodeAll(bid_submissions, EncodeBidSubmission)
        \o EncodeAll(bid_reveals, EncodeReveal)

OfferChainEvents ==
    EncodeAll(offer_submissions, EncodeOfferSubmission)
        \o EncodeAll(offer_reveals, EncodeReveal)

BidRevealApplied == Len(bid_reveals') = Len(bid_reveals) + 1

OfferRevealApplied == Len(offer_reveals') = Len(offer_reveals) + 1

BidSubmissionApplied == Len(bid_submissions') = Len(bid_submissions) + 1

OfferSubmissionApplied == Len(offer_submissions') = Len(offer_submissions) + 1

\* C6: each chain digest is the left fold d <- H(d || encode(e)) from the
\* zero digest over the stream's submissions followed by its reveals, so
\* every event, also one that leaves the book alone, extends the digest by
\* exactly H(previous digest || encode(e)).
C6_DigestIsLeftFold ==
    /\ acc_bids_hash = FoldDigest(B256_ZERO, BidChainEvents)
    /\ acc_offers_hash = FoldDigest(B256_ZERO, OfferChainEvents)

\* A reveal for a key that is not in the book has extended the bid chain.
C6_Witness ==
    /\ bid_submissions # <<>>
    /\ bid_reveals # <<>>
    /\ LastOf(bid_reveals).orderId \notin DOMAIN bids
    /\ acc_bids_hash =
         Hash(<<FoldDigest(B256_ZERO, Front0(BidChainEvents))>>
                  \o EncodeReveal(LastOf(bid_reveals)))

BadReveal(r, book, commitment(_)) ==
    \/ r.orderId \notin DOMAIN book
    \/ Hash(<<r.price, r.nonce>>) # commitment(book[r.orderId])
    \/ r.price > 1000000

BidCommitment(bid) == bid.bid_price_hash

OfferCommitment(offer) == offer.offer_price_hash

LiveKeys(submissions, Key(_), Size(_)) ==
    {k \in BookKeys :
        \E n \in 1..Len(submissions) :
            /\ Key(submissions[n]) = k
            /\ Size(submissions[n]) # 0
            /\ \A m \in (n + 1)..Len(submissions) : Key(submissions[m]) # k}

BidKeyOf(s) == <<s.bidder, s.id>>

OfferKeyOf(s) == <<s.offeror, s.id>>

BidSizeOf(s) == s.collateralAmount

OfferSizeOf(s) == s.amount

\* C9: no bid entry has collateral_amount 0 and no offer entry has amount 0:
\* the books hold exactly the keys whose latest submission has a non-zero
\* size (a zero-size submission removes the key, or is a no-op).
C9_NoZeroSizeEntry ==
    /\ \A k \in DOMAIN bids : bids[k].collateral_amount # 0
    /\ \A k \in DOMAIN offers : offers[k].amount # 0
    /\ DOMAIN bids = LiveKeys(bid_submissions, BidKeyOf, BidSizeOf)
    /\ DOMAIN offers = LiveKeys(offer_submissions, OfferKeyOf, OfferSizeOf)

\* A zero-collateral submission has removed a bid that was in the book.
C9_Witness ==
    /\ Len(bid_submissions) >= 2
    /\ LET s == LastOf(bid_submissions) IN
       /\ s.collateralAmount = 0
       /\ BidKeyOf(s) \notin DOMAIN bids
       /\ \E n \in 1..(Len(bid_submissions) - 1) :
            /\ BidKeyOf(bid_submissions[n]) = BidKeyOf(s)
            /\ bid_submissions[n].collateralAmount # 0

\* C10: a non-zero-size submission for a key of the book overwrites amount,
\* collateral_amount (bids) and the price commitment and nothing else; for
\* a new key it inserts an unrevealed entry with revealed price 0; every
\* other entry stays as it was.
C10_SubmissionFrame ==
    [][/\ (BidSubmissionApplied /\ LastOf(bid_submissions').collateralAmount # 0) =>
            LET s == LastOf(bid_submissions')
                key == <<s.bidder, s.id>>
                new == bids'[key]
            IN  /\ DOMAIN bids' = DOMAIN bids \cup {key}
                /\ \A k \in DOMAIN bids \ {key} : bids'[k] = bids[k]
                /\ new.amount = s.amount
                /\ new.collateral_amount = s.collateralAmount
                /\ new.bid_price_hash = s.bidPriceHash
                /\ new.bidder = s.bidder /\ new.id = s.id
                /\ IF key \in DOMAIN bids
                   THEN /\ new.bid_price_revealed = bids[key].bid_price_revealed
                        /\ new.is_revealed = bids[key].is_revealed
                   ELSE new.bid_price_revealed = 0 /\ ~new.is_revealed
       /\ (OfferSubmissionApplied /\ LastOf(offer_submissions').amount # 0) =>
            LET s == LastOf(offer_submissions')
                key == <<s.offeror, s.id>>
                new == offers'[key]
            IN  /\ DOMAIN offers' = DOMAIN offers \cup {key}
                /\ \A k \in DOMAIN offers \ {key} : offers'[k] = offers[k]
                /\ new.amount = s.amount
                /\ new.offer_price_hash = s.offerPriceHash
                /\ new.offeror = s.offeror /\ new.id = s.id
                /\ IF key \in DOMAIN offers
                   THEN /\ new.offer_price_revealed = offers[key].offer_price_revealed
                        /\ new.is_revealed = offers[key].is_revealed
                   ELSE new.offer_price_revealed = 0 /\ ~new.is_revealed
      ]_vars

\* A revealed bid was resubmitted with another commitment: the entry is
\* still revealed at its old price.
C10_Witness ==
    /\ \E k \in DOMAIN bids :
         /\ bids[k].is_revealed
         /\ bids[k].bid_price_revealed = 1000000
         /\ bids[k].bid_price_hash = Hash(<<1000001, 1>>)

----------------------------------------------------------------------------
(* Properties of run_auction *)

\* C1: run_auction is total: on no input does clearing-price discovery or
\* the assignment of bids and offers abort.
C1_RunAuctionTotal == pc # "aborted"

\* compute_clearing_price has returned: run_auction holds its results.
ClearingReturned == pc \in {"assign_bids", "assign_offers"}

\* A finished pass of an assignment loop took the partial branch.
PartialTaken(groups) == \E n \in 1..Len(groups) : groups[n].branch = "partial"

\* C2: the amounts assigned to bids and to offers never exceed
\* max_assignable, and on a side where a price group has been partially
\* assigned the amounts assigned equal max_assignable.
C2_AssignmentBound ==
    /\ U256_le(total_assigned_bids, max_assignable)
    /\ U256_le(total_assigned_offers, max_assignable)
    /\ (pc # "aborted" /\ PartialTaken(bid_groups))
           => total_assigned_bids = max_assignable
    /\ (pc # "aborted" /\ PartialTaken(offer_groups))
           => total_assigned_offers = max_assignable

RECURSIVE SumAmount(_)
SumAmount(orders) ==
    IF orders = <<>> THEN 0 ELSE Head(orders).amount + SumAmount(Tail(orders))

BidAtLeast(bid) == bid.bid_price_revealed >= clearing_price

OfferAtMost(offer) == offer.offer_price_revealed <= clearing_price

\* CSB at the clearing price: the volume of the bids priced at or above it.
CSB == SumAmount(SelectSeq(validated_bids, BidAtLeast))

\* CSO at the clearing price: the volume of the offers priced at or below it.
CSO == SumAmount(SelectSeq(validated_offers, OfferAtMost))

\* C3: the max_assignable that compute_clearing_price returns is the smaller
\* of CSB and CSO at the clearing price it returns.
C3_MaxAssignableIsMinOfSums ==
    ClearingReturned => max_assignable = (IF CSB <= CSO THEN CSB ELSE CSO)

LowestOfferPrice == validated_offers[1].offer_price_revealed

HighestBidPrice == validated_bids[Len(validated_bids)].bid_price_revealed

\* C4: the clearing price of an intersecting market lies between the lowest
\* offer price and the highest bid price.
C4_ClearingBracket ==
    ClearingReturned =>
        /\ LowestOfferPrice <= clearing_price
        /\ clearing_price <= HighestBidPrice

\* A clearing price strictly inside the bracket.
C4_Witness ==
    /\ ClearingReturned
    /\ LowestOfferPrice < clearing_price
    /\ clearing_price < HighestBidPrice

RECURSIVE SumBidCollateralOf(_, _)
SumBidCollateralOf(orders, address) ==
    IF orders = <<>>
    THEN 0
    ELSE (IF Head(orders).bidder = address THEN Head(orders).collateral_amount ELSE 0)
         + SumBidCollateralOf(Tail(orders), address)

RECURSIVE SumOfferAmountOf(_, _)
SumOfferAmountOf(orders, address) ==
    IF orders = <<>>
    THEN 0
    ELSE (IF Head(orders).offeror = address THEN Head(orders).amount ELSE 0)
         + SumOfferAmountOf(Tail(orders), address)

BidderOf(allocations, address) ==
    IF address \in DOMAIN allocations
    THEN allocations[address]
    ELSE [purchase_amount |-> 0, collateral_amount |-> 0,
          repurchase_obligation |-> [repurchase_amount |-> 0,
                                     collateral_amount |-> 0]]

OfferorOf(allocations, address) ==
    IF address \in DOMAIN allocations
    THEN allocations[address]
    ELSE [repo_amount |-> 0, purchase_amount |-> 0]

\* C5: when the market does not intersect, run_auction clears nothing and
\* unlocks every validated order once: each bidder's collateral grows by the
\* collateral of its validated bids, each offeror's purchase amount by the
\* amounts of its validated offers, and no purchase amount of a bidder, no
\* repo amount and no repurchase obligation comes into being.
C5_UnlockConserves ==
    [][(pc = "intersect" /\ ~Intersects) =>
        /\ pc' = "exit_leaves"
        /\ UNCHANGED <<clearing_vars, assign_bids_vars, assign_offers_vars>>
        /\ DOMAIN bidder_allocations' \subseteq Addresses
        /\ DOMAIN offeror_allocations' \subseteq Addresses
        /\ \A a \in Addresses :
             /\ BidderOf(bidder_allocations', a).collateral_amount =
                    BidderOf(bidder_allocations, a).collateral_amount
                        + SumBidCollateralOf(validated_bids, a)
             /\ BidderOf(bidder_allocations', a).purchase_amount = 0
             /\ BidderOf(bidder_allocations', a).repurchase_obligation =
                    [repurchase_amount |-> 0, collateral_amount |-> 0]
             /\ OfferorOf(offeror_allocations', a).purchase_amount =
                    OfferorOf(offeror_allocations, a).purchase_amount
                        + SumOfferAmountOf(validated_offers, a)
             /\ OfferorOf(offeror_allocations', a).repo_amount = 0
      ]_vars

\* The unlock of a market with validated orders on both sides that does not
\* intersect, two of the bids from one bidder.
C5_Witness ==
    /\ pc = "exit_leaves"
    /\ bid_groups = <<>>
    /\ validated_offers # <<>>
    /\ \E m, n \in 1..Len(validated_bids) :
         m # n /\ validated_bids[m].bidder = validated_bids[n].bidder
    /\ \E a \in DOMAIN bidder_allocations :
         bidder_allocations[a].collateral_amount >= 2 * CollateralFor(1)

----------------------------------------------------------------------------
(* Bid::is_valid on its own, over both ends of the range of a U256        *)

\* The amounts and prices of the calls lie within MaxOffset of 0 or of
\* 2^256.
MaxOffset == 3

\* U256 inputs: 0 .. MaxOffset and 2^256 - MaxOffset .. 2^256 - 1.
WideAmounts == (0 - MaxOffset) .. MaxOffset

WidePrices == {1, 2, U256_MAX}

IsValidInit ==
    /\ pc = "is_valid"
    /\ call_args \in [amount : WideAmounts, collateral_amount : WideAmounts,
                      purchasePrice : WidePrices, collateralPrice : WidePrices,
                      is_revealed : BOOLEAN]
    /\ call_result = "none"
    /\ NoAuction

\* The bid and the tokens of a call.
BidOfCall(args) ==
    [Bid_from_order_submission(
         [bidder |-> 1, id |-> 1, bidPriceHash |-> get_price_hash(1, 1),
          amount |-> args.amount, collateralAmount |-> args.collateral_amount])
     EXCEPT !.is_revealed = args.is_revealed]

TokensOfCall(args) ==
    [purchaseToken |-> PurchaseTokenAddress, purchasePrice |-> args.purchasePrice,
     collateralToken |-> CollateralTokenAddress, collateralPrice |-> args.collateralPrice,
     dayCount |-> DAYS_IN_YEAR]

IsValidCall ==
    /\ pc = "is_valid"
    /\ call_result' = Bid_is_valid(BidOfCall(call_args), TokensOfCall(call_args))
    /\ pc' = "returned"
    /\ UNCHANGED <<auction_vars, call_args>>

SpecIsValid == IsValidInit /\ [][IsValidCall]_vars

\* The mathematical integers of the calls, as polynomials in T = 2^256 with
\* small coefficients: <<c0, c1, c2, c3>> is c0 + c1 * T + c2 * T^2 + c3 * T^3.
ExactOf(v) == IF v < 0 THEN <<v, 1, 0, 0>> ELSE <<v, 0, 0, 0>>

\* The product of two such integers (no term above T^3 arises in is_valid).
ExactMul(u, v) ==
    <<u[1] * v[1],
      u[1] * v[2] + u[2] * v[1],
      u[1] * v[3] + u[2] * v[2] + u[3] * v[1],
      u[1] * v[4] + u[2] * v[3] + u[3] * v[2] + u[4] * v[1]>>

\* u >= v, the coefficients being small next to T: the sign of the leading
\* non-zero coefficient of the difference.
ExactGe(u, v) ==
    LET d == [k \in 1..4 |-> u[k] - v[k]]
    IN  IF d[4] # 0 THEN d[4] > 0
        ELSE IF d[3] # 0 THEN d[3] > 0
        ELSE IF d[2] # 0 THEN d[2] > 0
        ELSE d[1] >= 0

\* An integer that does not fit 256 bits: it is at least T.
ExactOverflows(u) == ExactGe(u, <<0, 1, 0, 0>>)

\* The four products of is_valid as mathematical integers.
ExactCollateralValue ==
    ExactMul(ExactOf(call_args.collateral_amount), ExactOf(call_args.collateralPrice))

ExactPurchaseValue ==
    ExactMul(ExactOf(call_args.amount), ExactOf(call_args.purchasePrice))

ExactMinimumCollateralSide ==
    ExactMul(ExactPurchaseValue, ExactOf(INITIAL_COLLATERAL_RATIO))

ExactCollateralSide == ExactMul(ExactCollateralValue, ExactOf(BPS))

SomeProductOverflows ==
    \/ ExactOverflows(ExactCollateralValue)
    \/ ExactOverflows(ExactPurchaseValue)
    \/ ExactOverflows(ExactMinimumCollateralSide)
    \/ ExactOverflows(ExactCollateralSide)

\* C11: Bid::is_valid returns true exactly when the bid is revealed, none of
\* the four products collateral_amount * collateral_price, amount *
\* purchase_price, purchase_value * 15000 and collateral_value * 10000
\* overflows 256 bits, and collateral_value * 10000 >= purchase_value *
\* 15000; a bid one of whose products overflows is invalid whatever the
\* wrapped values compare to.
C11_IsValidIffCollateralised ==
    pc = "returned" =>
        call_result = (/\ call_args.is_revealed
                       /\ ~SomeProductOverflows
                       /\ ExactGe(ExactCollateralSide, ExactMinimumCollateralSide))

\* A revealed bid whose purchase value alone overflows, whose wrapped values
\* satisfy the comparison, and that is invalid.
C11_Witness ==
    /\ pc = "returned"
    /\ call_args.is_revealed
    /\ ExactOverflows(ExactPurchaseValue)
    /\ ~ExactOverflows(ExactCollateralValue)
    /\ ~ExactOverflows(ExactCollateralSide)
    /\ U256_le(call_args.amount * call_args.purchasePrice * INITIAL_COLLATERAL_RATIO,
               call_args.collateral_amount * call_args.collateralPrice * BPS)
    /\ call_result = FALSE

----------------------------------------------------------------------------
(* Properties of validation and assignment *)

\* The collateral test of is_valid on the amounts of an auction, none of
\* which overflows.
Collateralised(bid) ==
    bid.collateral_amount * auction_parameters.collateralPrice * BPS
        >= bid.amount * auction_parameters.purchasePrice * INITIAL_COLLATERAL_RATIO

ValidBidKeys == {k \in DOMAIN bids : bids[k].is_revealed /\ Collateralised(bids[k])}

ValidOfferKeys == {k \in DOMAIN offers : offers[k].is_revealed}

\* The orders of a list are those of the keys, each once, in ascending key
\* order.
IsBookInKeyOrder(orders, book, keys, KeyOf(_)) ==
    /\ Len(orders) = Cardinality(keys)
    /\ \A n \in 1..Len(orders) : KeyOf(orders[n]) \in keys /\ orders[n] = book[KeyOf(orders[n])]
    /\ \A n \in 1..Len(orders) - 1 : KeyLess(KeyOf(orders[n]), KeyOf(orders[n + 1]))

\* The sum of a field over the orders of some keys of a book.
RECURSIVE SumOver(_, _, _)
SumOver(book, keys, field) ==
    IF keys = {} THEN 0
    ELSE LET k == CHOOSE x \in keys : TRUE
         IN  book[k][field] + SumOver(book, keys \ {k}, field)

\* C12: into_validated_orders partitions the book.  The valid orders make
\* the validated list, in ascending key order, and earn their owner nothing;
\* every invalid order is refunded: the collateral_amount of a bid to its
\* bidder's collateral_amount, the amount of an offer to its offeror's
\* purchase_amount.  No purchase credit for a bidder, no repo credit for
\* an offeror, no repurchase obligation.
C12_ValidationPartitions ==
    [][pc = "validate" =>
         /\ IsBookInKeyOrder(validated_bids', bids, ValidBidKeys, BidKeyOf)
         /\ IsBookInKeyOrder(validated_offers', offers, ValidOfferKeys, OfferKeyOf)
         /\ DOMAIN bidder_allocations' = {k[1] : k \in DOMAIN bids \ ValidBidKeys}
         /\ DOMAIN offeror_allocations' = {k[1] : k \in DOMAIN offers \ ValidOfferKeys}
         /\ \A a \in DOMAIN bidder_allocations' :
              bidder_allocations'[a] =
                      [purchase_amount |-> 0,
                       collateral_amount |->
                           SumOver(bids, {k \in DOMAIN bids \ ValidBidKeys : k[1] = a},
                                   "collateral_amount"),
                       repurchase_obligation |->
                           [repurchase_amount |-> 0, collateral_amount |-> 0]]
         /\ \A a \in DOMAIN offeror_allocations' :
              offeror_allocations'[a] =
                      [repo_amount |-> 0,
                       purchase_amount |->
                           SumOver(offers, {k \in DOMAIN offers \ ValidOfferKeys : k[1] = a},
                                   "amount")]
      ]_vars

\* A book validated into two valid bids, with an unrevealed and an
\* under-collateralised bid refunded and an unrevealed offer refunded.
C12_Witness ==
    /\ pc = "sort"
    /\ Len(validated_bids) >= 1
    /\ Len(validated_offers) >= 2
    /\ \E k1, k2 \in DOMAIN bids :
         /\ ~bids[k1].is_revealed
         /\ bids[k2].is_revealed /\ ~Collateralised(bids[k2])
         /\ bidder_allocations[k1[1]].collateral_amount >= bids[k1].collateral_amount
         /\ bidder_allocations[k2[1]].collateral_amount >= bids[k2].collateral_amount
    /\ \E k \in DOMAIN offers :
         ~offers[k].is_revealed /\ offeror_allocations[k[1]].purchase_amount > 0

\* The indices (from 0) of the orders of a list that have the price of the
\* order at index at, and the total of their amounts: the price group.
GroupIndices(orders, at) ==
    {m \in 0..Len(orders) - 1 : PriceOf(At(orders, m)) = PriceOf(At(orders, at))}

RECURSIVE SumAmountAt(_, _)
SumAmountAt(orders, indices) ==
    IF indices = {} THEN 0
    ELSE LET m == CHOOSE x \in indices : TRUE
         IN  At(orders, m).amount + SumAmountAt(orders, indices \ {m})

GroupTotal(orders, at) == SumAmountAt(orders, GroupIndices(orders, at))

\* The passes of an assignment loop that ran to their end.
CompletedPasses(groups, loop) ==
    {n \in 1..Len(groups) : ~(n = Len(groups) /\ pc = "aborted" /\ panic = loop)}

\* The pass met a price group that is still to be served and fits what is
\* left to assign.
GroupFits(orders, group) ==
    /\ U256_lt(group.total_before, max_assignable)
    /\ GroupTotal(orders, group.i) <= max_assignable - group.total_before

\* The pass has called fully_assign on every order of the price group.
GroupFullyAssigned(orders, group) ==
    \A m \in GroupIndices(orders, group.i) :
        \E c \in 1..Len(group.calls) :
            group.calls[c] = Call(m, "full", At(orders, m).amount)

\* C13: a price group on the winning side whose total is at most
\* max_assignable less what has been assigned is fully assigned, every order
\* of it receiving its whole amount, also when the total equals what is
\* left; bids and offers alike.
C13_FittingGroupFullyAssigned ==
    /\ \A n \in CompletedPasses(bid_groups, "ValidatedBids::assign") :
         (/\ BidPrice(At(validated_bids, bid_groups[n].i)) >= clearing_price
          /\ GroupFits(validated_bids, bid_groups[n]))
             => GroupFullyAssigned(validated_bids, bid_groups[n])
    /\ \A n \in CompletedPasses(offer_groups, "ValidatedOffers::assign") :
         (/\ OfferPrice(At(validated_offers, offer_groups[n].i)) <= clearing_price
          /\ GroupFits(validated_offers, offer_groups[n]))
             => GroupFullyAssigned(validated_offers, offer_groups[n])

\* The total of the amounts of the first n calls of a pass, and of the
\* amounts of the orders they were made on.
RECURSIVE SumCalls(_, _)
SumCalls(calls, n) == IF n = 0 THEN 0 ELSE calls[n].amount + SumCalls(calls, n - 1)

RECURSIVE SumCalled(_, _, _)
SumCalled(orders, calls, n) ==
    IF n = 0 THEN 0
    ELSE At(orders, calls[n].index).amount + SumCalled(orders, calls, n - 1)

\* The pass met a price group that is still to be served and is larger than
\* what is left to assign.
GroupExceeds(orders, group) ==
    /\ U256_lt(group.total_before, max_assignable)
    /\ GroupTotal(orders, group.i) > max_assignable - group.total_before

\* The pass has shared what was left to assign among the orders of the
\* price group: one call of partially_assign on each order, each but the
\* last with the floor of amount * remaining / g_remaining, the last with
\* what is left; the amounts add up to what was left, and none exceeds the
\* amount of its order.
GroupPartiallyAssigned(orders, group) ==
    LET calls == group.calls
        left == max_assignable - group.total_before
        g == GroupTotal(orders, group.i)
    IN  /\ Len(calls) = Cardinality(GroupIndices(orders, group.i))
        /\ {calls[c].index : c \in 1..Len(calls)} = GroupIndices(orders, group.i)
        /\ \A c \in 1..Len(calls) :
             /\ calls[c].kind = "partial"
             /\ calls[c].amount <= At(orders, calls[c].index).amount
             /\ c < Len(calls) =>
                  calls[c].amount =
                      (At(orders, calls[c].index).amount * (left - SumCalls(calls, c - 1)))
                          \div (g - SumCalled(orders, calls, c - 1))
        /\ SumCalls(calls, Len(calls)) = left

\* C14: a price group on the winning side whose total exceeds what is left
\* to assign is partially assigned: every order but the last receives
\* floor(amount * remaining / g_remaining), the last what is left, so that
\* the amounts assigned add up to what was left and no order receives more
\* than its amount; bids and offers alike.
C14_PartialAssignmentShares ==
    /\ \A n \in 1..Len(bid_groups) :
         (/\ BidPrice(At(validated_bids, bid_groups[n].i)) >= clearing_price
          /\ GroupExceeds(validated_bids, bid_groups[n]))
             => (/\ n \in CompletedPasses(bid_groups, "ValidatedBids::assign")
                 /\ GroupPartiallyAssigned(validated_bids, bid_groups[n]))
    /\ \A n \in CompletedPasses(offer_groups, "ValidatedOffers::assign") :
         (/\ OfferPrice(At(validated_offers, offer_groups[n].i)) <= clearing_price
          /\ GroupExceeds(validated_offers, offer_groups[n]))
             => GroupPartiallyAssigned(validated_offers, offer_groups[n])

----------------------------------------------------------------------------
(* fully_assign, partially_assign and unlock of one order, on their own    *)

\* The amounts, collateral, assigned amounts and clearing prices of the
\* calls; the day count is that of the scenario parameters, and no call
\* assigns more than the amount of its order.
CallAmounts == {2, 100}

CallCollateral == {3, 150}

CallAssignedAmounts == {1, 60}

CallPrices == {1, 1000}

\* The allocations a call starts from: none, or one for each address.
EarlierBidderAllocations ==
    {EmptyMap,
     [a \in Addresses |->
         [purchase_amount |-> 1, collateral_amount |-> 2,
          repurchase_obligation |-> [repurchase_amount |-> 4, collateral_amount |-> 8]]]}

EarlierOfferorAllocations ==
    {EmptyMap, [a \in Addresses |-> [repo_amount |-> 1, purchase_amount |-> 2]]}

OrderCallsInit ==
    /\ pc = "order_call"
    /\ \/ call_args \in [side : {"bid"}, op : {"fully_assign", "partially_assign", "unlock"},
                         owner : Addresses, amount : CallAmounts,
                         collateral_amount : CallCollateral,
                         assigned_amount : CallAssignedAmounts, price : CallPrices,
                         allocations : EarlierBidderAllocations]
       \/ call_args \in [side : {"offer"}, op : {"fully_assign", "partially_assign", "unlock"},
                         owner : Addresses, amount : CallAmounts,
                         collateral_amount : {0},
                         assigned_amount : CallAssignedAmounts, price : CallPrices,
                         allocations : EarlierOfferorAllocations]
    /\ call_args.assigned_amount <= call_args.amount
    /\ call_result = "none"
    /\ NoAuction

\* The revealed order of a call.
BidOfOrderCall(args) ==
    [Bid_from_order_submission(
         [bidder |-> args.owner, id |-> 1,
          bidPriceHash |-> get_price_hash(args.price, AuctionNonce),
          amount |-> args.amount, collateralAmount |-> args.collateral_amount])
     EXCEPT !.bid_price_revealed = args.price, !.is_revealed = TRUE]

OfferOfOrderCall(args) ==
    [Offer_from_order_submission(
         [offeror |-> args.owner, id |-> 1,
          offerPriceHash |-> get_price_hash(args.price, AuctionNonce),
          amount |-> args.amount, purchaseToken |-> PurchaseTokenAddress])
     EXCEPT !.offer_price_revealed = args.price, !.is_revealed = TRUE]

\* One call of the AssignableOrder trait on a bid: the allocations after it.
BidOrderCall ==
    /\ pc = "order_call"
    /\ call_args.side = "bid"
    /\ LET bid == BidOfOrderCall(call_args)
           day_count == auction_parameters.dayCount
       IN  call_result' =
               CASE call_args.op = "fully_assign" ->
                        Bid_fully_assign(bid, call_args.price, day_count,
                                         call_args.allocations).allocations
                 [] call_args.op = "partially_assign" ->
                        Bid_partially_assign(bid, call_args.price, day_count,
                                             call_args.assigned_amount,
                                             call_args.allocations).allocations
                 [] OTHER -> Bid_unlock(bid, call_args.allocations)
    /\ pc' = "returned"
    /\ UNCHANGED <<auction_vars, call_args>>

\* One call of the AssignableOrder trait on an offer.
OfferOrderCall ==
    /\ pc = "order_call"
    /\ call_args.side = "offer"
    /\ LET offer == OfferOfOrderCall(call_args)
           day_count == auction_parameters.dayCount
       IN  call_result' =
               CASE call_args.op = "fully_assign" ->
                        Offer_fully_assign(offer, call_args.price, day_count,
                                           call_args.allocations).allocations
                 [] call_args.op = "partially_assign" ->
                        Offer_partially_assign(offer, call_args.price, day_count,
                                               call_args.assigned_amount,
                                               call_args.allocations).allocations
                 [] OTHER -> Offer_unlock(offer, call_args.allocations)
    /\ pc' = "returned"
    /\ UNCHANGED <<auction_vars, call_args>>

NextOrderCalls == BidOrderCall \/ OfferOrderCall

SpecOrderCalls == OrderCallsInit /\ [][NextOrderCalls]_vars

\* The amount a call assigns: the whole amount, or the amount it is given.
AssignedByCall == IF call_args.op = "fully_assign" THEN call_args.amount ELSE call_args.assigned_amount

BidCallReturned == pc = "returned" /\ call_args.side = "bid"

OfferCallReturned == pc = "returned" /\ call_args.side = "offer"

\* The allocations of the other addresses are as before the call.
OthersUntouched ==
    \A a \in Addresses \ {call_args.owner} :
        /\ (a \in DOMAIN call_result) = (a \in DOMAIN call_args.allocations)
        /\ a \in DOMAIN call_result => call_result[a] = call_args.allocations[a]

\* C15: assigning an amount a of a bid, fully or partially, adds a to the
\* bidder's purchase_amount, repurchase_price(a, c, d) to the repurchase
\* amount of the obligation and the entire collateral_amount of the bid to
\* the collateral of the obligation, and leaves the bidder's withdrawable
\* collateral alone; unlocking a bid adds its collateral_amount to the
\* withdrawable collateral and changes nothing else.
C15_BidAssignmentEffects ==
    BidCallReturned =>
        LET before == BidderOf(call_args.allocations, call_args.owner)
            after == BidderOf(call_result, call_args.owner)
            a == AssignedByCall
        IN  /\ call_args.owner \in DOMAIN call_result
            /\ OthersUntouched
            /\ IF call_args.op = "unlock"
               THEN after = [before EXCEPT !.collateral_amount = @ + call_args.collateral_amount]
               ELSE after =
                        [purchase_amount |-> before.purchase_amount + a,
                         collateral_amount |-> before.collateral_amount,
                         repurchase_obligation |->
                             [repurchase_amount |->
                                  before.repurchase_obligation.repurchase_amount
                                      + calculate_repurchase_price(
                                            a, call_args.price, auction_parameters.dayCount),
                              collateral_amount |->
                                  before.repurchase_obligation.collateral_amount
                                      + call_args.collateral_amount]]

\* A bid of 100 with collateral 150 partially assigned 60 at price 1000 on
\* top of an earlier allocation: 66 more to repurchase, all 150 booked.
C15_Witness ==
    /\ BidCallReturned
    /\ call_args.op = "partially_assign"
    /\ call_args.amount = 100 /\ call_args.collateral_amount = 150
    /\ call_args.assigned_amount = 60 /\ call_args.price = 1000
    /\ call_args.allocations # EmptyMap
    /\ call_result[call_args.owner] =
           [purchase_amount |-> 61, collateral_amount |-> 2,
            repurchase_obligation |-> [repurchase_amount |-> 70, collateral_amount |-> 158]]

\* C16: assigning an amount a of an offer adds repurchase_price(a, c, d) to
\* the offeror's repo_amount; a partial assignment, and only a partial one,
\* also adds offer.amount - a to the purchase_amount; unlocking an offer adds
\* its amount to the purchase_amount and nothing to the repo_amount.
C16_OfferAssignmentEffects ==
    OfferCallReturned =>
        LET before == OfferorOf(call_args.allocations, call_args.owner)
            after == OfferorOf(call_result, call_args.owner)
            a == AssignedByCall
            repo == calculate_repurchase_price(a, call_args.price, auction_parameters.dayCount)
        IN  /\ call_args.owner \in DOMAIN call_result
            /\ OthersUntouched
            /\ after =
                 CASE call_args.op = "fully_assign" ->
                          [repo_amount |-> before.repo_amount + repo,
                           purchase_amount |-> before.purchase_amount]
                   [] call_args.op = "partially_assign" ->
                          [repo_amount |-> before.repo_amount + repo,
                           purchase_amount |->
                               before.purchase_amount + (call_args.amount - a)]
                   [] OTHER ->
                          [repo_amount |-> before.repo_amount,
                           purchase_amount |-> before.purchase_amount + call_args.amount]

\* An offer of 100 partially assigned 60 at price 1000 on top of an earlier
\* allocation: 66 repo tokens more, 40 purchase tokens back.
C16_Witness ==
    /\ OfferCallReturned
    /\ call_args.op = "partially_assign"
    /\ call_args.amount = 100 /\ call_args.assigned_amount = 60
    /\ call_args.price = 1000
    /\ call_args.allocations # EmptyMap
    /\ call_result[call_args.owner] = [repo_amount |-> 67, purchase_amount |-> 42]

----------------------------------------------------------------------------
(* into_exit_leaves and hash_exit_root on their own                        *)

\* The allocations of the calls: a prover with or without fees, and for
\* every address no allocation or one with each field zero or not.
ProverAllocationSet == [prover_address : {ProverAddress}, purchase_amount : {0, 5}]

BidderAllocationSet ==
    [purchase_amount : {0, 1}, collateral_amount : {0, 2},
     repurchase_obligation : [repurchase_amount : {0, 3}, collateral_amount : {0, 4}]]

OfferorAllocationSet == [repo_amount : {0, 1}, purchase_amount : {0, 2}]

\* The maps from some of the addresses to the allocations of a set.
AllocationMaps(allocation_set) ==
    UNION {[owners -> allocation_set] : owners \in SUBSET Addresses}

ExitTreeInit ==
    /\ pc = "into_exit_leaves"
    /\ call_args \in [prover : ProverAllocationSet,
                      bidders : AllocationMaps(BidderAllocationSet),
                      offerors : AllocationMaps(OfferorAllocationSet)]
    /\ call_result = "none"
    /\ NoAuction

\* Allocations::into_exit_leaves into an empty list of leaves.
IntoExitLeavesCall ==
    /\ pc = "into_exit_leaves"
    /\ exit_leaves' = AuctionResults_into_exit_leaves(
                          call_args.prover, call_args.bidders, call_args.offerors,
                          auction_parameters, <<>>)
    /\ pc' = "hash_exit_root"
    /\ UNCHANGED <<input_vars, book_vars, panic, result_vars, clearing_vars,
                   assign_bids_vars, assign_offers_vars, tokens_hash,
                   auction_result_root, call_vars>>

\* ExitTree::hash_exit_root of the leaves.
HashExitRootCall ==
    /\ pc = "hash_exit_root"
    /\ auction_result_root' = ExitLeaves_hash_exit_root(exit_leaves)
    /\ pc' = "returned"
    /\ UNCHANGED <<input_vars, book_vars, panic, result_vars, clearing_vars,
                   assign_bids_vars, assign_offers_vars, tokens_hash, exit_leaves,
                   call_vars>>

NextExitTree == IntoExitLeavesCall \/ HashExitRootCall

SpecExitTree == ExitTreeInit /\ [][NextExitTree]_vars

\* A leaf that stands for something: a withdrawal of a non-zero amount, an
\* obligation with a non-zero field.
StandsForSomething(leaf) ==
    IF leaf.kind = "RepurchaseObligation"
    THEN leaf.repurchaseAmount # 0 \/ leaf.collateralAmount # 0
    ELSE leaf.amount # 0

\* The leaves of the bidders with addresses from..2, then those of the
\* offerors: per address the items in their order, the empty ones left out.
RECURSIVE LeavesOfBidders(_, _)
LeavesOfBidders(bidders, from) ==
    IF from > 2 THEN <<>>
    ELSE (IF from \in DOMAIN bidders
          THEN SelectSeq(
                   <<ExitLeaf_TokenWithdrawal(from, PurchaseTokenAddress,
                                              bidders[from].purchase_amount),
                     ExitLeaf_TokenWithdrawal(from, CollateralTokenAddress,
                                              bidders[from].collateral_amount),
                     ExitLeaf_RepurchaseObligation(
                         from, bidders[from].repurchase_obligation.repurchase_amount,
                         bidders[from].repurchase_obligation.collateral_amount)>>,
                   StandsForSomething)
          ELSE <<>>)
         \o LeavesOfBidders(bidders, from + 1)

RECURSIVE LeavesOfOfferors(_, _)
LeavesOfOfferors(offerors, from) ==
    IF from > 2 THEN <<>>
    ELSE (IF from \in DOMAIN offerors
          THEN SelectSeq(
                   <<ExitLeaf_RepoTokenWithdrawal(from, offerors[from].repo_amount),
                     ExitLeaf_TokenWithdrawal(from, PurchaseTokenAddress,
                                              offerors[from].purchase_amount)>>,
                   StandsForSomething)
          ELSE <<>>)
         \o LeavesOfOfferors(offerors, from + 1)

\* C17: the exit leaves are, in this order: the prover's TokenWithdrawal if
\* its purchase_amount is not zero; for each bidder in ascending address
\* order the purchase TokenWithdrawal, the collateral TokenWithdrawal and the
\* RepurchaseObligation; for each offeror in ascending address order the
\* RepoTokenWithdrawal and the purchase TokenWithdrawal.  A withdrawal of
\* zero and an obligation with both fields zero make no leaf.
C17_ExitLeafOrder ==
    pc \in {"hash_exit_root", "returned"} =>
        exit_leaves =
            SelectSeq(<<ExitLeaf_TokenWithdrawal(call_args.prover.prover_address,
                                                 PurchaseTokenAddress,
                                                 call_args.prover.purchase_amount)>>,
                      StandsForSomething)
                \o LeavesOfBidders(call_args.bidders, 1)
                \o LeavesOfOfferors(call_args.offerors, 1)

\* Leaves of a prover with fees, of two bidders, one with all three items
\* and one with an obligation of collateral only, and of two offerors, one
\* of which has nothing to withdraw.
C17_Witness ==
    /\ pc = "hash_exit_root"
    /\ DOMAIN call_args.offerors = Addresses
    /\ exit_leaves =
           <<ExitLeaf_TokenWithdrawal(ProverAddress, PurchaseTokenAddress, 5),
             ExitLeaf_TokenWithdrawal(1, PurchaseTokenAddress, 1),
             ExitLeaf_TokenWithdrawal(1, CollateralTokenAddress, 2),
             ExitLeaf_RepurchaseObligation(1, 3, 4),
             ExitLeaf_RepurchaseObligation(2, 0, 4),
             ExitLeaf_RepoTokenWithdrawal(1, 1),
             ExitLeaf_TokenWithdrawal(1, PurchaseTokenAddress, 2)>>

\* The hashes of the exit leaves, the leaves of the tree.
LeafHashes == [n \in 1..Len(exit_leaves) |-> ExitLeaf_hash(exit_leaves[n])]

\* C18: hash_exit_root is the root of the lean incremental Merkle tree of
\* the leaf hashes, LeanIncrementalMerkleTree::new(leaves).root(): adjacent
\* nodes hashed in pairs, a lone last node promoted unchanged; the all-zero
\* root for no leaf, the hash of the leaf for a single leaf.
C18_RootIsLeanIMTRoot ==
    pc = "returned" =>
        /\ auction_result_root =
               LeanIncrementalMerkleTree_root(LeanIncrementalMerkleTree_new(LeafHashes))
        /\ exit_leaves = <<>> => auction_result_root = B256_ZERO
        /\ Len(exit_leaves) = 1 => auction_result_root = LeafHashes[1]
        /\ Len(exit_leaves) = 2 => auction_result_root = HashPair(LeafHashes[1], LeafHashes[2])

\* The root of five leaves: the fifth is promoted twice and hashed once.
C18_Witness ==
    /\ pc = "returned"
    /\ Len(exit_leaves) = 5
    /\ auction_result_root =
           HashPair(HashPair(HashPair(LeafHashes[1], LeafHashes[2]),
                             HashPair(LeafHashes[3], LeafHashes[4])),
                    LeafHashes[5])

----------------------------------------------------------------------------
(* Properties of the order of the validated lists *)

\* The permutations of the indices of a list, and a list permuted by one.
PermutationsOf(n) ==
    {f \in [1..n -> 1..n] : \A a, b \in 1..n : a # b => f[a] # f[b]}

Permuted(orders, f) == [n \in 1..Len(orders) |-> orders[f[n]]]

\* The validated bids as into_validated_orders returned them, before
\* sort_orders.
UnsortedValidatedBids ==
    Bids_into_validated_orders(bids, auction_parameters, EmptyMap).valid_orders

\* What run_auction makes of a list of validated bids given in some order,
\* at the clearing price and max_assignable of the state: the list sorted
\* and assigned, and the root of the exit leaves of the bidders; no root
\* when the assignment panics.
RootOfBids(orders) ==
    LET r == ValidatedBids_assign(
                 ValidatedBids_sort_orders(orders), Len(orders), 0, max_assignable,
                 clearing_price, auction_parameters.dayCount, bidder_allocations)
    IN  [aborted |-> r.abort,
         root |-> IF r.abort
                  THEN B256_ZERO
                  ELSE ExitLeaves_hash_exit_root(
                           AuctionResults_into_exit_leaves(
                               ProverAllocation_new(ProverAddress), r.allocations,
                               EmptyMap, auction_parameters, <<>>))]

\* The assignment of the bids is about to begin.
AssignmentBegins == pc = "assign_bids" /\ bid_groups = <<>>

\* C19: the order in which the validated bids are handed to sort_orders does
\* not matter to the digests: every permutation of the list gives the root
\* the given order gives, also when bids of several bidders share the
\* marginal price.
C19_RootIgnoresOrderOfValidatedBids ==
    AssignmentBegins =>
        \A f \in PermutationsOf(Len(UnsortedValidatedBids)) :
            RootOfBids(Permuted(UnsortedValidatedBids, f)) = RootOfBids(UnsortedValidatedBids)

\* A market of the shape of scenario S4: one bid and one offer submitted,
\* both validated, of one amount and one price, the bid with the collateral
\* the initial ratio asks for.
S4Market ==
    /\ Len(bid_submissions) = 1
    /\ Len(offer_submissions) = 1
    /\ Len(validated_bids) = 1
    /\ Len(validated_offers) = 1
    /\ validated_bids[1].amount = validated_offers[1].amount
    /\ validated_bids[1].bid_price_revealed = validated_offers[1].offer_price_revealed
    /\ validated_bids[1].collateral_amount = CollateralFor(validated_bids[1].amount)

\* The three exit leaves of such a market: the bidder withdraws the amount of
\* purchase token, owes the repurchase price against the collateral, and the
\* offeror withdraws the repurchase price in repo tokens.
S4ExitLeaves ==
    LET bid == validated_bids[1]
        repurchase == calculate_repurchase_price(
                          bid.amount, bid.bid_price_revealed, auction_parameters.dayCount)
    IN  <<ExitLeaf_TokenWithdrawal(bid.bidder, auction_parameters.purchaseToken, bid.amount),
          ExitLeaf_RepurchaseObligation(bid.bidder, repurchase, bid.collateral_amount),
          ExitLeaf_RepoTokenWithdrawal(validated_offers[1].offeror, repurchase)>>

\* C20: a market of one bid and one offer of the same amount and price
\* clears at that price with both orders fully assigned, and run_auction
\* ends with exactly three exit leaves: the bidder's withdrawal of the
\* purchase token, the bidder's repurchase obligation and the offeror's
\* withdrawal of repo tokens, in this order.
C20_SingleMatchThreeLeaves ==
    S4Market =>
        /\ pc # "aborted"
        /\ ClearingReturned =>
               /\ clearing_price = validated_bids[1].bid_price_revealed
               /\ max_assignable = validated_bids[1].amount
        /\ pc = "done" =>
               /\ total_assigned_bids = validated_bids[1].amount
               /\ total_assigned_offers = validated_offers[1].amount
               /\ exit_leaves = S4ExitLeaves

----------------------------------------------------------------------------
(* Properties of sort_orders *)

\* The index of an order in a list that holds it once.
PositionIn(orders, order) == CHOOSE n \in 1..Len(orders) : orders[n] = order

\* sorted holds the orders of unsorted, each once, in ascending price, and
\* orders of one price in the order they have in unsorted.
IsStablySorted(unsorted, sorted) ==
    /\ Len(sorted) = Len(unsorted)
    /\ \A n \in 1..Len(unsorted) : \E m \in 1..Len(sorted) : sorted[m] = unsorted[n]
    /\ \A m, n \in 1..Len(sorted) :
         m < n => U256_le(PriceOf(sorted[m]), PriceOf(sorted[n]))
    /\ \A m, n \in 1..Len(unsorted) :
         (m < n /\ PriceOf(unsorted[m]) = PriceOf(unsorted[n]))
             => PositionIn(sorted, unsorted[m]) < PositionIn(sorted, unsorted[n])

\* C21: sort_orders returns the validated bids and the validated offers as
\* permutations in ascending revealed price, orders of equal price in the
\* order the iteration of the book by key gave them; the highest bid ends at
\* the last index and the lowest offer at the first.
C21_SortIsStableAscending ==
    [][pc = "sort" =>
        /\ IsStablySorted(validated_bids, validated_bids')
        /\ IsStablySorted(validated_offers, validated_offers')
        /\ \A n \in 1..Len(validated_bids) :
             U256_le(BidPrice(validated_bids[n]),
                     BidPrice(validated_bids'[Len(validated_bids')]))
        /\ \A n \in 1..Len(validated_offers) :
             U256_le(OfferPrice(validated_offers'[1]), OfferPrice(validated_offers[n]))
      ]_vars

\* sort_orders has moved a bid in front of two bids of one price, and an
\* offer likewise.
C21_Witness ==
    /\ pc = "intersect"
    /\ Len(validated_bids) = 3
    /\ validated_bids # UnsortedValidatedBids
    /\ BidPrice(validated_bids[2]) = BidPrice(validated_bids[3])
    /\ Len(validated_offers) = 3
    /\ validated_offers # Offers_into_validated_orders(offers, EmptyMap).valid_orders
    /\ OfferPrice(validated_offers[2]) = OfferPrice(validated_offers[3])

----------------------------------------------------------------------------
(* Properties of the reveals of a book *)

\* A reveal among those folded so far names the entry, matches the
\* commitment the entry holds and keeps to the maximum price.
ValidBidRevealApplied(key) ==
    \E n \in 1..Len(bid_reveals) :
        /\ bid_reveals[n].orderId = key
        /\ get_price_hash(bid_reveals[n].price, bid_reveals[n].nonce) = bids[key].bid_price_hash
        /\ bid_reveals[n].price <= MAX_BID_PRICE

ValidOfferRevealApplied(key) ==
    \E n \in 1..Len(offer_reveals) :
        /\ offer_reveals[n].orderId = key
        /\ get_price_hash(offer_reveals[n].price, offer_reveals[n].nonce) = offers[key].offer_price_hash
        /\ offer_reveals[n].price <= MAX_OFFER_PRICE

IsValidBidReveal(r) ==
    /\ r.orderId \in DOMAIN bids
    /\ get_price_hash(r.price, r.nonce) = bids[r.orderId].bid_price_hash
    /\ r.price <= MAX_BID_PRICE

IsValidOfferReveal(r) ==
    /\ r.orderId \in DOMAIN offers
    /\ get_price_hash(r.price, r.nonce) = offers[r.orderId].offer_price_hash
    /\ r.price <= MAX_OFFER_PRICE

\* C23: a valid reveal applied a second time, right after it was applied,
\* leaves the book as the first application left it.
C23_RevealIdempotentOnBook ==
    [][/\ (/\ BidRevealApplied
           /\ bid_reveals # <<>>
           /\ LastOf(bid_reveals') = LastOf(bid_reveals)
           /\ IsValidBidReveal(LastOf(bid_reveals)))
            => bids' = bids
       /\ (/\ OfferRevealApplied
           /\ offer_reveals # <<>>
           /\ LastOf(offer_reveals') = LastOf(offer_reveals)
           /\ IsValidOfferReveal(LastOf(offer_reveals)))
            => offers' = offers
      ]_vars

\* One valid reveal of a bid has been applied twice in a row.
C23_Witness ==
    /\ Len(bid_reveals) = 2
    /\ bid_reveals[1] = bid_reveals[2]
    /\ IsValidBidReveal(bid_reveals[2])
    /\ bids[bid_reveals[2].orderId].is_revealed
    /\ bids[bid_reveals[2].orderId].bid_price_revealed = bid_reveals[2].price

----------------------------------------------------------------------------
(* generate_proof and verify_proof of the lean incremental Merkle tree     *)

\* The most leaves of a tree.
MaxLeaves == 6

\* The leaves of the trees of n leaves: n different digests, or any of two
\* digests at each index, so that a tree may hold a leaf more than once.
LeafDigests == {Hash(<<n>>) : n \in 1..2}

LeavesOfSize(n) == [1..n -> LeafDigests] \cup {[m \in 1..n |-> Hash(<<m>>)]}

\* A tree of 1..MaxLeaves leaves and an index into it, or the first index
\* behind it.
MerkleInit ==
    /\ pc = "generate_proof"
    /\ call_args \in UNION {[leaves : LeavesOfSize(n), index : 0..n] :
                            n \in 1..MaxLeaves}
    /\ call_result = "none"
    /\ NoAuction

\* tree.generate_proof(index) of the tree new(leaves).
GenerateProofCall ==
    /\ pc = "generate_proof"
    /\ call_result' = [proof |-> LeanIncrementalMerkleTree_generate_proof(
                                     LeanIncrementalMerkleTree_new(call_args.leaves),
                                     call_args.index),
                       verified |-> FALSE]
    /\ pc' = IF call_result'.proof.is_ok THEN "verify_proof" ELSE "returned"
    /\ UNCHANGED <<auction_vars, call_args>>

\* tree.verify_proof(&proof) of the proof generated.
VerifyProofCall ==
    /\ pc = "verify_proof"
    /\ call_result' = [call_result EXCEPT
                          !.verified = LeanIncrementalMerkleTree_verify_proof(call_result.proof)]
    /\ pc' = "returned"
    /\ UNCHANGED <<auction_vars, call_args>>

NextMerkle == GenerateProofCall \/ VerifyProofCall

SpecMerkle == MerkleInit /\ [][NextMerkle]_vars

\* C24: for every leaf of a tree of one leaf or more, generate_proof gives
\* a proof and verify_proof accepts it, also when the path of the leaf goes
\* through nodes that were promoted for want of a sibling.
C24_ProofRoundTrip ==
    pc = "returned" =>
        (call_args.index < Len(call_args.leaves)
            => call_result.proof.is_ok /\ call_result.verified)

\* The proof of the fifth of five leaves was accepted: the leaf is promoted
\* twice and paired once, at the top.
C24_Witness ==
    /\ pc = "returned"
    /\ Len(call_args.leaves) = 5
    /\ \A m, n \in 1..5 : m # n => call_args.leaves[m] # call_args.leaves[n]
    /\ call_args.index = 4
    /\ Len(call_result.proof.siblings) = 1
    /\ call_result.proof.index = 1
    /\ call_result.verified

----------------------------------------------------------------------------
(* Properties of compute_clearing_price *)

\* The amount offered at a price, up to a price, and bid from a price on.
AmountOfferedAt(price) ==
    LET AtPrice(offer) == OfferPrice(offer) = price
    IN  SumAmount(SelectSeq(validated_offers, AtPrice))

AmountOfferedUpTo(price) ==
    LET UpTo(offer) == U256_le(OfferPrice(offer), price)
    IN  SumAmount(SelectSeq(validated_offers, UpTo))

AmountBidFrom(price) ==
    LET From(bid) == U256_le(price, BidPrice(bid))
    IN  SumAmount(SelectSeq(validated_bids, From))

\* The next candidate of the sweep: the price of the first offer above the
\* offers counted so far.
CandidatePrice == OfferPrice(At(validated_offers, offer_index))

CandidateVolume ==
    U256_min(AmountBidFrom(CandidatePrice), AmountOfferedUpTo(CandidatePrice))

\* C25: the volume-maximising sweep of compute_clearing_price starts at the
\* lowest offer price, with CSO the amount offered at that price and CSB the
\* amount bid at or above it; it goes on one offer price group at a time,
\* keeps a candidate only if min(CSB, CSO) grows, and stops at the first
\* candidate that does not make it grow.
C25_SweepFromLowestOffer ==
    [][/\ (pc = "intersect" /\ pc' = "pre_clearance") =>
            /\ cum_sum_offers' = AmountOfferedAt(OfferPrice(validated_offers[1]))
            /\ cum_sum_bids' = AmountBidFrom(OfferPrice(validated_offers[1]))
            /\ max_clearing_volume' = U256_min(cum_sum_bids', cum_sum_offers')
       /\ (pc = "pre_clearance" /\ pc' = "pre_clearance") =>
            /\ cum_sum_offers' = AmountOfferedUpTo(CandidatePrice)
            /\ cum_sum_bids' = AmountBidFrom(CandidatePrice)
            /\ max_clearing_volume' = CandidateVolume
            /\ U256_lt(max_clearing_volume, max_clearing_volume')
       /\ (pc = "pre_clearance" /\ pc' = "minimise") =>
            /\ UNCHANGED <<cum_sum_offers, cum_sum_bids, max_clearing_volume>>
            /\ offer_index < Len(validated_offers)
                   => U256_le(CandidateVolume, max_clearing_volume)
      ]_vars

\* The lowest bid price group still counted in cum_sum_bids: the bids from
\* bid_index on at the price of the bid at bid_index.
LowestRemainingBidPrice == BidPrice(At(validated_bids, bid_index))

LowestRemainingBidGroup ==
    {m \in bid_index..Len(validated_bids) - 1 :
        BidPrice(At(validated_bids, m)) = LowestRemainingBidPrice}

\* cum_sum_bids without that group.
DecrementedCumSumBids ==
    cum_sum_bids - SumAmountAt(validated_bids, LowestRemainingBidGroup)

\* C26: once the pre-clearance price is fixed, compute_clearing_price takes
\* the lowest remaining bid price group out of CSB only while its price is
\* strictly below the next offer price and CSB without it is still at least
\* CSO, and stops at the first group for which one of the two fails.
C26_DropsBidGroupsWhileCovered ==
    [][/\ (pc = "minimise" /\ pc' = "minimise") =>
            /\ U256_lt(LowestRemainingBidPrice, next_offer_price)
            /\ U256_le(cum_sum_offers, DecrementedCumSumBids)
            /\ cum_sum_bids' = DecrementedCumSumBids
       /\ (pc = "minimise" /\ pc' = "clearing_price") =>
            /\ cum_sum_bids' = cum_sum_bids
            /\ bid_index < Len(validated_bids) =>
                   \/ ~U256_lt(LowestRemainingBidPrice, next_offer_price)
                   \/ ~U256_le(cum_sum_offers, DecrementedCumSumBids)
      ]_vars

----------------------------------------------------------------------------
(* Properties of the assignment as a whole *)

\* run_auction has come to its end, by returning or by a panic.
RunEnded == pc \in {"exit_leaves", "done", "aborted"}

\* The purchase tokens credited to the bidders.
RECURSIVE SumPurchaseAmount(_, _)
SumPurchaseAmount(allocations, owners) ==
    IF owners = {} THEN 0
    ELSE LET a == CHOOSE x \in owners : TRUE
         IN  allocations[a].purchase_amount
                 + SumPurchaseAmount(allocations, owners \ {a})

\* C27: when the market intersects, the amount assigned to the bids is the
\* amount assigned to the offers: the purchase tokens credited to the
\* bidders are the purchase tokens taken from the amounts the offerors
\* locked.
C27_AssignedBidsEqualAssignedOffers ==
    (Intersects /\ RunEnded) =>
        /\ total_assigned_bids = total_assigned_offers
        /\ SumPurchaseAmount(bidder_allocations, DOMAIN bidder_allocations)
               = total_assigned_offers

\* ValidatedBids::assign and ValidatedOffers::assign called on their own
\* (lib.rs:98-113 with any clearing price and any max_assignable): the
\* orders of one side, all revealed and valid, sorted; the other side empty.
RevealedOptions ==
    {[kind |-> "absent", price |-> 0, amount |-> 0]}
    \cup [kind : {"revealed"}, price : Prices, amount : OrderAmounts]

AssignPrices == 1..MaxPrice

AssignLimits == 0..4

AssignInit ==
    /\ \E bid_options \in [1..Len(AuctionBidKeys) -> RevealedOptions],
          offer_options \in [1..Len(AuctionOfferKeys) -> RevealedOptions] :
         LET bs == BidSubmissions_hash_chain(
                       StreamOf(AuctionBidKeys, bid_options, {"revealed"},
                                "bid_submission", 1), B256_ZERO, EmptyMap)
             br == BidReveals_hash_chain(
                       StreamOf(AuctionBidKeys, bid_options, {"revealed"}, "reveal", 1),
                       bs.acc, bs.book)
             os == OfferSubmissions_hash_chain(
                       StreamOf(AuctionOfferKeys, offer_options, {"revealed"},
                                "offer_submission", 1), B256_ZERO, EmptyMap)
             or == OfferReveals_hash_chain(
                       StreamOf(AuctionOfferKeys, offer_options, {"revealed"}, "reveal", 1),
                       os.acc, os.book)
             vb == Bids_into_validated_orders(br.book, ScenarioParameters, EmptyMap)
             vo == Offers_into_validated_orders(or.book, EmptyMap)
         IN  /\ (vb.valid_orders = <<>>) # (vo.valid_orders = <<>>)
             /\ bid_submissions = StreamOf(AuctionBidKeys, bid_options, {"revealed"},
                                           "bid_submission", 1)
             /\ bid_reveals = StreamOf(AuctionBidKeys, bid_options, {"revealed"},
                                       "reveal", 1)
             /\ offer_submissions = StreamOf(AuctionOfferKeys, offer_options,
                                             {"revealed"}, "offer_submission", 1)
             /\ offer_reveals = StreamOf(AuctionOfferKeys, offer_options, {"revealed"},
                                         "reveal", 1)
             /\ bids = br.book
             /\ acc_bids_hash = br.acc
             /\ offers = or.book
             /\ acc_offers_hash = or.acc
             /\ validated_bids = ValidatedBids_sort_orders(vb.valid_orders)
             /\ bidder_allocations = vb.allocations
             /\ validated_offers = ValidatedOffers_sort_orders(vo.valid_orders)
             /\ offeror_allocations = vo.allocations
             /\ j = Len(vb.valid_orders)
             /\ pc = IF vb.valid_orders # <<>> THEN "assign_bids" ELSE "assign_offers"
    /\ auction_parameters = ScenarioParameters
    /\ clearing_price \in AssignPrices
    /\ max_assignable \in AssignLimits
    /\ panic = ""
    /\ offer_index = 0
    /\ bid_index = 0
    /\ cum_sum_offers = 0
    /\ cum_sum_bids = 0
    /\ max_clearing_volume = 0
    /\ next_offer_price = 0
    /\ total_assigned_bids = 0
    /\ bid_groups = <<>>
    /\ i = 0
    /\ total_assigned_offers = 0
    /\ offer_groups = <<>>
    /\ tokens_hash = B256_ZERO
    /\ exit_leaves = <<>>
    /\ auction_result_root = B256_ZERO
    /\ NoCall

NextAssign == AssignBids \/ AssignOffers

SpecAssign == AssignInit /\ [][NextAssign]_vars

\* The calls made on the order at an index by the passes recorded in groups:
\* pairs of a pass and a call of it.
CallsOn(groups, index) ==
    {gc \in UNION {{<<g, c>> : c \in 1..Len(groups[g].calls)} : g \in 1..Len(groups)} :
        groups[gc[1]].calls[gc[2]].index = index}

\* The collateral an allocation credits: what may be withdrawn and what
\* backs the repurchase obligation.
CollateralCredited(allocations) ==
    LET Both(a) == BidderOf(allocations, a).collateral_amount
                       + BidderOf(allocations, a).repurchase_obligation.collateral_amount
    IN  Both(1) + Both(2)

\* The bidder allocations as validation left them, before the assignment.
AllocationsOfValidation ==
    Bids_into_validated_orders(bids, auction_parameters, EmptyMap).allocations

RECURSIVE SumCollateral(_)
SumCollateral(orders) ==
    IF orders = <<>> THEN 0
    ELSE Head(orders).collateral_amount + SumCollateral(Tail(orders))

\* C28: ValidatedBids::assign, once it has returned, has made one call on
\* every validated bid (fully_assign, partially_assign or unlock), and the
\* collateral it credited to the bidders, withdrawable or backing an
\* obligation, is the collateral of the validated bids; also when a fully
\* assigned price group of two bids or more ends at index 0.
C28_EveryBidProcessedOnce ==
    pc = "assign_offers" =>
        /\ \A m \in 0..Len(validated_bids) - 1 :
             Cardinality(CallsOn(bid_groups, m)) = 1
        /\ CollateralCredited(bidder_allocations)
               - CollateralCredited(AllocationsOfValidation)
                   = SumCollateral(validated_bids)

\* ValidatedOffers::assign has come to its end, by returning or by a panic.
OffersAssignEnded ==
    /\ validated_offers # <<>>
    /\ pc = "exit_leaves" \/ (pc = "aborted" /\ panic = "ValidatedOffers::assign")

\* The purchase tokens the assignment gave back to the offerors.
PurchaseRefunded ==
    LET before == Offers_into_validated_orders(offers, EmptyMap).allocations
    IN  SumPurchaseAmount(offeror_allocations, DOMAIN offeror_allocations)
            - SumPurchaseAmount(before, DOMAIN before)

\* C29: ValidatedOffers::assign makes one call on every validated offer
\* (fully_assign, partially_assign or unlock), so that the amounts of the
\* offers are what was assigned plus what was given back as
\* purchase_amount; no offer is passed over without a call.
C29_EveryOfferHasOneOutcome ==
    OffersAssignEnded =>
        /\ \A m \in 0..Len(validated_offers) - 1 :
             Cardinality(CallsOn(offer_groups, m)) = 1
        /\ total_assigned_offers + PurchaseRefunded = SumAmount(validated_offers)

----------------------------------------------------------------------------
(* Properties of the sums of compute_clearing_price *)

\* compute_clearing_price is between its initialisation and the computation
\* of the clearing price.
SumsInUse == pc \in {"pre_clearance", "minimise", "clearing_price"}

\* C30: until the clearing price is computed, cum_sum_bids is the sum of the
\* amounts of the bids from bid_index on and cum_sum_offers the sum of the
\* amounts of the offers before offer_index; nothing is subtracted that was
\* not added, so neither sum wraps below zero.
C30_CumSumsMatchIndices ==
    SumsInUse =>
        /\ cum_sum_bids =
               SumAmountAt(validated_bids, bid_index..Len(validated_bids) - 1)
        /\ cum_sum_offers = SumAmountAt(validated_offers, 0..offer_index - 1)
        /\ cum_sum_bids >= 0
        /\ cum_sum_offers >= 0

====
